---- MODULE Spec2Model ----
(***************************************************************************)
(* A model of tool/kilo-cloud.ts, the registry-driven dispatcher of the    *)
(* Kilo Cloud API tool, and of the speak tool of command/know-kilo.md.     *)
(*                                                                         *)
(* Strings.  A JavaScript string is modelled as the sequence of its        *)
(* characters, each a one-character TLA+ string.  Fixed pieces of text     *)
(* that the code only ever copies (the literal parts of a template         *)
(* literal, an endpoint's description, an engine-provided message) are     *)
(* kept as one element each.                                               *)
(*                                                                         *)
(* JavaScript values.  A JSON-compatible value is a record tagged by t:    *)
(* "undefined", "null", "bool", "num", "str", "arr", "obj".  An object is  *)
(* its insertion-ordered sequence of own properties, each [k, v].          *)
(***************************************************************************)
EXTENDS Integers, Sequences, FiniteSets, TLC

VARIABLES env, headers, procedures, tool, calls, speak

vars == <<env, headers, procedures, tool, calls, speak>>

----------------------------------------------------------------------------
(* Characters *)

Digits == {"0", "1", "2", "3", "4", "5", "6", "7", "8", "9"}

Lower ==
  {"a", "b", "c", "d", "e", "f", "g", "h", "i", "j", "k", "l", "m",
   "n", "o", "p", "q", "r", "s", "t", "u", "v", "w", "x", "y", "z"}

Upper ==
  {"A", "B", "C", "D", "E", "F", "G", "H", "I", "J", "K", "L", "M",
   "N", "O", "P", "Q", "R", "S", "T", "U", "V", "W", "X", "Y", "Z"}

\* \w of a regular expression
WordChars == Lower \cup Upper \cup Digits \cup {"_"}

\* JSON insignificant whitespace
Whitespace == {" ", "\n", "\t", "\r"}

----------------------------------------------------------------------------
(* Sequences as strings *)

Min(a, b) == IF a <= b THEN a ELSE b

\* s.substring(0, n)
Substring0(s, n) == SubSeq(s, 1, Min(n, Len(s)))

\* s.slice(from) with a 1-based first index
Drop(s, from) == SubSeq(s, from, Len(s))

\* whether pat occurs in s at 1-based position i
MatchesAt(s, pat, i) ==
  /\ i >= 1
  /\ i + Len(pat) - 1 <= Len(s)
  /\ SubSeq(s, i, i + Len(pat) - 1) = pat

\* s.includes(pat)
Contains(s, pat) == \E i \in 1..(Len(s) + 1) : MatchesAt(s, pat, i)

\* s.indexOf(pat) as a 1-based position, 0 when pat does not occur
IndexOf(s, pat) ==
  IF Contains(s, pat)
  THEN CHOOSE i \in 1..(Len(s) + 1) :
         /\ MatchesAt(s, pat, i)
         /\ \A j \in 1..(i - 1) : ~MatchesAt(s, pat, j)
  ELSE 0

RECURSIVE Concat(_)
\* parts.join(""), by halves
Concat(parts) ==
  IF parts = <<>> THEN <<>>
  ELSE IF Len(parts) = 1 THEN parts[1]
  ELSE Concat(SubSeq(parts, 1, Len(parts) \div 2))
       \o Concat(SubSeq(parts, (Len(parts) \div 2) + 1, Len(parts)))

\* parts.join(sep)
Join(parts, sep) ==
  IF parts = <<>> THEN <<>>
  ELSE Concat([i \in 1..(2 * Len(parts) - 1) |->
                 IF i % 2 = 1 THEN parts[(i + 1) \div 2] ELSE sep])

----------------------------------------------------------------------------
(* JavaScript values *)

JUndefined == [t |-> "undefined"]
JNull == [t |-> "null"]
JBool(b) == [t |-> "bool", v |-> b]
JNum(digits) == [t |-> "num", v |-> digits]
JStr(s) == [t |-> "str", v |-> s]
JArr(elems) == [t |-> "arr", v |-> elems]
JObj(props) == [t |-> "obj", v |-> props]

Prop(k, v) == [k |-> k, v |-> v]

\* own property keys of an object, in order
Keys(props) == [i \in 1..Len(props) |-> props[i].k]

HasOwn(props, k) == \E i \in 1..Len(props) : props[i].k = k

\* props[k] for an own property
GetOwn(props, k) == props[CHOOSE i \in 1..Len(props) : props[i].k = k].v

\* props[k] = v: an existing property keeps its place, a new one is appended
SetOwn(props, k, v) ==
  IF HasOwn(props, k)
  THEN [i \in 1..Len(props) |-> IF props[i].k = k THEN Prop(k, v) ELSE props[i]]
  ELSE Append(props, Prop(k, v))

\* delete props[k]
DeleteOwn(props, k) == SelectSeq(props, LAMBDA p : p.k # k)

\* value.k for a property access on any value: only objects carry the
\* properties a JSON text can give them
Member(value, k) ==
  IF value.t = "obj" /\ HasOwn(value.v, k) THEN GetOwn(value.v, k) ELSE JUndefined

\* ToBoolean
Truthy(value) ==
  CASE value.t = "undefined" -> FALSE
    [] value.t = "null" -> FALSE
    [] value.t = "bool" -> value.v
    [] value.t = "num" -> value.v # <<"0">>
    [] value.t = "str" -> value.v # <<>>
    [] OTHER -> TRUE

\* the decimal digits of a natural number
RECURSIVE NatToStr(_)
NatToStr(n) ==
  LET d == <<"0", "1", "2", "3", "4", "5", "6", "7", "8", "9">>[(n % 10) + 1]
  IN IF n < 10 THEN <<d>> ELSE NatToStr(n \div 10) \o <<d>>

RECURSIVE ToStr(_)
\* String(value), also the conversion a template literal applies
ToStr(value) ==
  CASE value.t = "undefined" -> <<"u", "n", "d", "e", "f", "i", "n", "e", "d">>
    [] value.t = "null" -> <<"n", "u", "l", "l">>
    [] value.t = "bool" ->
         IF value.v THEN <<"t", "r", "u", "e">> ELSE <<"f", "a", "l", "s", "e">>
    [] value.t = "num" -> value.v
    [] value.t = "str" -> value.v
    [] value.t = "arr" ->
         Join([i \in 1..Len(value.v) |->
                 IF value.v[i].t \in {"null", "undefined"} THEN <<>>
                 ELSE ToStr(value.v[i])], <<",">>)
    [] OTHER ->
         <<"[", "o", "b", "j", "e", "c", "t", " ", "O", "b", "j", "e", "c", "t", "]">>

----------------------------------------------------------------------------
(* JSON.parse *)

ParseFail(i) == [ok |-> FALSE, v |-> JNull, i |-> i]
ParseOk(v, i) == [ok |-> TRUE, v |-> v, i |-> i]

RECURSIVE SkipWs(_, _)
SkipWs(s, i) ==
  IF i <= Len(s) /\ s[i] \in Whitespace THEN SkipWs(s, i + 1) ELSE i

RECURSIVE DigitsEnd(_, _)
\* the position after the run of digits that starts at i
DigitsEnd(s, i) ==
  IF i <= Len(s) /\ s[i] \in Digits THEN DigitsEnd(s, i + 1) ELSE i

\* an integer literal without sign, fraction or exponent; no leading zero
ParseNumber(s, i) ==
  LET e == DigitsEnd(s, i)
  IN IF s[i] = "0" /\ e > i + 1 THEN ParseOk(JNum(<<"0">>), i + 1)
     ELSE ParseOk(JNum(SubSeq(s, i, e - 1)), e)

RECURSIVE BackslashesBefore(_, _)
\* the length of the run of backslashes that ends just before position j
BackslashesBefore(s, j) ==
  IF j > 1 /\ s[j - 1] = "\\" THEN 1 + BackslashesBefore(s, j - 1) ELSE 0

\* whether the character at j follows an escaping backslash
Escaped(s, j) == BackslashesBefore(s, j) % 2 = 1

\* the character an escape sequence stands for
Unescape(c) ==
  CASE c = "n" -> "\n" [] c = "t" -> "\t" [] c = "r" -> "\r" [] OTHER -> c

\* the characters of a string literal whose opening quote precedes i: up to
\* the first quote that is not escaped
ParseChars(s, i) ==
  LET quotes == {j \in i..Len(s) : s[j] = "\"" /\ ~Escaped(s, j)}
      close == CHOOSE j \in quotes : \A k \in quotes : j <= k
      bad(j) == IF Escaped(s, j) THEN s[j] \notin {"\"", "\\", "/", "n", "t", "r"}
                ELSE s[j] \in {"\n", "\t", "\r"}
      piece(j) == IF Escaped(s, j) THEN <<Unescape(s[j])>>
                  ELSE IF s[j] = "\\" THEN <<>>
                  ELSE <<s[j]>>
  IN IF quotes = {} THEN ParseFail(Len(s) + 1)
     ELSE IF \E j \in i..(close - 1) : bad(j)
       THEN ParseFail(CHOOSE j \in i..(close - 1) : bad(j))
     ELSE ParseOk(JStr(Concat([x \in 1..(close - i) |-> piece(i + x - 1)])),
                  close + 1)

RECURSIVE ParseValue(_, _)
RECURSIVE ParseElements(_, _, _)
RECURSIVE ParseMembers(_, _, _)

\* the elements of an array after "[" or ","
ParseElements(s, i, acc) ==
  LET r == ParseValue(s, i)
      j == SkipWs(s, r.i)
  IN IF ~r.ok THEN r
     ELSE IF j > Len(s) THEN ParseFail(j)
     ELSE IF s[j] = "," THEN ParseElements(s, j + 1, Append(acc, r.v))
     ELSE IF s[j] = "]" THEN ParseOk(JArr(Append(acc, r.v)), j + 1)
     ELSE ParseFail(j)

\* the members of an object after "{" or ","
ParseMembers(s, i, acc) ==
  LET j == SkipWs(s, i)
  IN IF j > Len(s) \/ s[j] # "\"" THEN ParseFail(j)
     ELSE
       LET k == ParseChars(s, j + 1)
           c == SkipWs(s, k.i)
       IN IF ~k.ok THEN k
          ELSE IF c > Len(s) \/ s[c] # ":" THEN ParseFail(c)
          ELSE
            LET r == ParseValue(s, c + 1)
                e == SkipWs(s, r.i)
                props == SetOwn(acc, k.v.v, r.v)
            IN IF ~r.ok THEN r
               ELSE IF e > Len(s) THEN ParseFail(e)
               ELSE IF s[e] = "," THEN ParseMembers(s, e + 1, props)
               ELSE IF s[e] = "}" THEN ParseOk(JObj(props), e + 1)
               ELSE ParseFail(e)

ParseValue(s, i) ==
  LET j == SkipWs(s, i)
  IN IF j > Len(s) THEN ParseFail(j)
     ELSE IF s[j] = "{" THEN
       IF SkipWs(s, j + 1) <= Len(s) /\ s[SkipWs(s, j + 1)] = "}"
       THEN ParseOk(JObj(<<>>), SkipWs(s, j + 1) + 1)
       ELSE ParseMembers(s, j + 1, <<>>)
     ELSE IF s[j] = "[" THEN
       IF SkipWs(s, j + 1) <= Len(s) /\ s[SkipWs(s, j + 1)] = "]"
       THEN ParseOk(JArr(<<>>), SkipWs(s, j + 1) + 1)
       ELSE ParseElements(s, j + 1, <<>>)
     ELSE IF s[j] = "\"" THEN ParseChars(s, j + 1)
     ELSE IF s[j] \in Digits THEN ParseNumber(s, j)
     ELSE IF MatchesAt(s, <<"t", "r", "u", "e">>, j) THEN ParseOk(JBool(TRUE), j + 4)
     ELSE IF MatchesAt(s, <<"f", "a", "l", "s", "e">>, j) THEN ParseOk(JBool(FALSE), j + 5)
     ELSE IF MatchesAt(s, <<"n", "u", "l", "l">>, j) THEN ParseOk(JNull, j + 4)
     ELSE ParseFail(j)

\* JSON.parse(text): ok is FALSE where JSON.parse throws a SyntaxError
JSONparse(text) ==
  LET r == ParseValue(text, 1)
  IN IF r.ok /\ SkipWs(text, r.i) > Len(text) THEN [ok |-> TRUE, v |-> r.v]
     ELSE [ok |-> FALSE, v |-> JNull]

\* the message of the SyntaxError JSON.parse throws (engine-provided text)
SyntaxErrorMessage == <<"Unexpected token in JSON">>

----------------------------------------------------------------------------
(* JSON.stringify *)

\* a character as it stands inside a JSON string literal
QuoteChar(c) ==
  CASE c \in {"\"", "\\"} -> <<"\\", c>>
    [] c = "\n" -> <<"\\", "n">>
    [] c = "\t" -> <<"\\", "t">>
    [] c = "\r" -> <<"\\", "r">>
    [] OTHER -> <<c>>

QuoteChars(s) == Concat([i \in 1..Len(s) |-> QuoteChar(s[i])])

\* the JSON string literal of s
Quote(s) == <<"\"">> \o QuoteChars(s) \o <<"\"">>

Spaces(n) == [i \in 1..n |-> " "]

\* the line break and indentation before an item at nesting depth "depth";
\* nothing when no space argument is given (space = 0)
Break(depth, space) ==
  IF space = 0 THEN <<>> ELSE <<"\n">> \o Spaces(space * depth)

RECURSIVE Stringify(_, _, _)
\* the text of value at nesting depth "depth", indented by "space" a level
Stringify(value, depth, space) ==
  CASE value.t = "null" -> <<"n", "u", "l", "l">>
    [] value.t = "bool" -> ToStr(value)
    [] value.t = "num" -> value.v
    [] value.t = "str" -> Quote(value.v)
    [] value.t = "arr" ->
         IF value.v = <<>> THEN <<"[", "]">>
         ELSE <<"[">>
              \o Join([i \in 1..Len(value.v) |->
                         Break(depth + 1, space)
                         \o (IF value.v[i].t = "undefined" THEN <<"n", "u", "l", "l">>
                             ELSE Stringify(value.v[i], depth + 1, space))],
                      <<",">>)
              \o Break(depth, space) \o <<"]">>
    [] value.t = "obj" ->
         LET present == SelectSeq(value.v, LAMBDA p : p.v.t # "undefined")
         IN IF present = <<>> THEN <<"{", "}">>
            ELSE <<"{">>
                 \o Join([i \in 1..Len(present) |->
                            Break(depth + 1, space) \o Quote(present[i].k) \o <<":">>
                            \o (IF space = 0 THEN <<>> ELSE <<" ">>)
                            \o Stringify(present[i].v, depth + 1, space)],
                         <<",">>)
                 \o Break(depth, space) \o <<"}">>

\* JSON.stringify(value)
JSONstringify(value) == Stringify(value, 0, 0)

\* JSON.stringify(value, null, 2)
JSONstringifyPretty(value) == Stringify(value, 0, 2)

----------------------------------------------------------------------------
(* URL encoding *)

\* the percent code of each ASCII character that is not a letter or a digit
PercentCodes ==
  <<
    <<" ", "%", "2", "0">>, <<"!", "%", "2", "1">>, <<"\"", "%", "2", "2">>, <<"#", "%", "2", "3">>,
    <<"$", "%", "2", "4">>, <<"%", "%", "2", "5">>, <<"&", "%", "2", "6">>, <<"'", "%", "2", "7">>,
    <<"(", "%", "2", "8">>, <<")", "%", "2", "9">>, <<"*", "%", "2", "A">>, <<"+", "%", "2", "B">>,
    <<",", "%", "2", "C">>, <<"-", "%", "2", "D">>, <<".", "%", "2", "E">>, <<"/", "%", "2", "F">>,
    <<":", "%", "3", "A">>, <<";", "%", "3", "B">>, <<"<", "%", "3", "C">>, <<"=", "%", "3", "D">>,
    <<">", "%", "3", "E">>, <<"?", "%", "3", "F">>, <<"@", "%", "4", "0">>, <<"[", "%", "5", "B">>,
    <<"\\", "%", "5", "C">>, <<"]", "%", "5", "D">>, <<"^", "%", "5", "E">>, <<"_", "%", "5", "F">>,
    <<"{", "%", "7", "B">>, <<"|", "%", "7", "C">>, <<"}", "%", "7", "D">>,
    <<"~", "%", "7", "E">>, <<"\n", "%", "0", "A">>, <<"\t", "%", "0", "9">>, <<"\r", "%", "0", "D">>
  >>

PercentEncode(c) ==
  IF \E i \in 1..Len(PercentCodes) : PercentCodes[i][1] = c
  THEN Tail(PercentCodes[CHOOSE i \in 1..Len(PercentCodes) : PercentCodes[i][1] = c])
  ELSE <<c>>

Alphanumeric == Lower \cup Upper \cup Digits

\* the characters encodeURIComponent leaves as they are
UriUnreserved ==
  Alphanumeric \cup {"-", "_", ".", "!", "~", "*", "'", "(", ")"}

\* the characters the form-urlencoded serialiser leaves as they are
FormUnreserved == Alphanumeric \cup {"*", "-", ".", "_"}

encodeURIComponent(s) ==
  Concat([i \in 1..Len(s) |->
            IF s[i] \in UriUnreserved THEN <<s[i]>> ELSE PercentEncode(s[i])])

\* the application/x-www-form-urlencoded serialisation of one name or value
FormEncode(s) ==
  Concat([i \in 1..Len(s) |->
            IF s[i] \in FormUnreserved THEN <<s[i]>>
            ELSE IF s[i] = " " THEN <<"+">>
            ELSE PercentEncode(s[i])])

\* new URLSearchParams(props).toString(): each own property as name=value,
\* the value converted to a string
URLSearchParamsToString(props) ==
  Join([i \in 1..Len(props) |->
          FormEncode(props[i].k) \o <<"=">> \o FormEncode(ToStr(props[i].v))],
       <<"&">>)

----------------------------------------------------------------------------
(* String.prototype.replace with a string pattern, and the path regex *)

RECURSIVE ExpandReplacement(_, _, _)
\* the replacement text: $$ is a dollar sign, $& the match, $' the text after
\* it (the pattern for the text before it needs a character the alphabet of
\* the model leaves out)
ExpandReplacement(repl, matched, after) ==
  IF repl = <<>> THEN <<>>
  ELSE IF Head(repl) = "$" /\ Len(repl) >= 2 /\ repl[2] \in {"$", "&", "'"}
    THEN (CASE repl[2] = "$" -> <<"$">>
            [] repl[2] = "&" -> matched
            [] OTHER -> after)
         \o ExpandReplacement(Drop(repl, 3), matched, after)
  ELSE <<Head(repl)>> \o ExpandReplacement(Tail(repl), matched, after)

\* s.replace(pat, repl): the first occurrence only
Replace(s, pat, repl) ==
  LET i == IndexOf(s, pat)
      before == SubSeq(s, 1, i - 1)
      after == Drop(s, i + Len(pat))
  IN IF i = 0 THEN s
     ELSE before \o ExpandReplacement(repl, pat, after) \o after

RECURSIVE WordEnd(_, _)
\* the position after the run of \w characters that starts at i
WordEnd(s, i) ==
  IF i <= Len(s) /\ s[i] \in WordChars THEN WordEnd(s, i + 1) ELSE i

\* whether /\[(\w+)\]/ matches at position i
PlaceholderAt(path, i) ==
  /\ path[i] = "["
  /\ WordEnd(path, i + 1) > i + 1
  /\ WordEnd(path, i + 1) <= Len(path)
  /\ path[WordEnd(path, i + 1)] = "]"

\* (path.match(/\[(\w+)\]/g) || []).map(p => p.slice(1, -1)): two matches
\* never overlap, since no bracket is a \w character
MatchPlaceholders(path) ==
  LET starts == SelectSeq([i \in 1..Len(path) |-> i],
                          LAMBDA i : PlaceholderAt(path, i))
  IN [x \in 1..Len(starts) |->
        SubSeq(path, starts[x] + 1, WordEnd(path, starts[x] + 1) - 1)]

\* whether prefix starts s
StartsWith(s, prefix) == MatchesAt(s, prefix, 1)

----------------------------------------------------------------------------
(* The endpoint registry.  params is <<>> where the entry gives none, raw  *)
(* is FALSE where the entry gives none: the code reads params only for its *)
(* truthiness and raw only by raw === true.                                *)

restEndpoints ==
  <<
    [group |-> <<"p", "r", "o", "f", "i", "l", "e">>,
     endpoints |-> <<
       [name |-> <<"G", "E", "T", " ", "/", "a", "p", "i", "/", "p", "r", "o", "f", "i", "l", "e">>,
        method |-> <<"G", "E", "T">>, raw |-> FALSE,
        description |-> <<"Get user profile + organizations.">>,
        params |-> <<>>],
       [name |-> <<"G", "E", "T", " ", "/", "a", "p", "i", "/", "p", "r", "o", "f", "i", "l", "e", "/", "u", "s", "a", "g", "e">>,
        method |-> <<"G", "E", "T">>, raw |-> FALSE,
        description |-> <<"Get user usage data.">>,
        params |-> <<"groupByModel (boolean), viewType (personal|all|orgId)">>],
       [name |-> <<"G", "E", "T", " ", "/", "a", "p", "i", "/", "p", "r", "o", "f", "i", "l", "e", "/", "b", "a", "l", "a", "n", "c", "e">>,
        method |-> <<"G", "E", "T">>, raw |-> FALSE,
        description |-> <<"Get user credit balance.">>,
        params |-> <<>>],
       [name |-> <<"P", "O", "S", "T", " ", "/", "a", "p", "i", "/", "p", "r", "o", "f", "i", "l", "e", "/", "r", "e", "d", "e", "e", "m", "-", "p", "r", "o", "m", "o", "c", "o", "d", "e">>,
        method |-> <<"P", "O", "S", "T">>, raw |-> FALSE,
        description |-> <<"Redeem promo code.">>,
        params |-> <<"code">>]
     >>],
    [group |-> <<"m", "a", "r", "k", "e", "t", "p", "l", "a", "c", "e">>,
     endpoints |-> <<
       [name |-> <<"G", "E", "T", " ", "/", "a", "p", "i", "/", "m", "a", "r", "k", "e", "t", "p", "l", "a", "c", "e", "/", "s", "k", "i", "l", "l", "s">>,
        method |-> <<"G", "E", "T">>, raw |-> TRUE,
        description |-> <<"List marketplace skills (returns YAML).">>,
        params |-> <<>>],
       [name |-> <<"G", "E", "T", " ", "/", "a", "p", "i", "/", "m", "a", "r", "k", "e", "t", "p", "l", "a", "c", "e", "/", "m", "o", "d", "e", "s">>,
        method |-> <<"G", "E", "T">>, raw |-> TRUE,
        description |-> <<"List marketplace modes (returns YAML).">>,
        params |-> <<>>],
       [name |-> <<"G", "E", "T", " ", "/", "a", "p", "i", "/", "m", "a", "r", "k", "e", "t", "p", "l", "a", "c", "e", "/", "m", "c", "p", "s">>,
        method |-> <<"G", "E", "T">>, raw |-> TRUE,
        description |-> <<"List marketplace MCPs (returns YAML).">>,
        params |-> <<>>]
     >>],
    [group |-> <<"o", "p", "e", "n", "r", "o", "u", "t", "e", "r">>,
     endpoints |-> <<
       [name |-> <<"G", "E", "T", " ", "/", "a", "p", "i", "/", "o", "p", "e", "n", "r", "o", "u", "t", "e", "r", "/", "m", "o", "d", "e", "l", "s">>,
        method |-> <<"G", "E", "T">>, raw |-> FALSE,
        description |-> <<"List OpenRouter models.">>,
        params |-> <<>>],
       [name |-> <<"G", "E", "T", " ", "/", "a", "p", "i", "/", "o", "p", "e", "n", "r", "o", "u", "t", "e", "r", "/", "p", "r", "o", "v", "i", "d", "e", "r", "s">>,
        method |-> <<"G", "E", "T">>, raw |-> FALSE,
        description |-> <<"List providers.">>,
        params |-> <<>>],
       [name |-> <<"G", "E", "T", " ", "/", "a", "p", "i", "/", "o", "p", "e", "n", "r", "o", "u", "t", "e", "r", "/", "m", "o", "d", "e", "l", "s", "-", "b", "y", "-", "p", "r", "o", "v", "i", "d", "e", "r">>,
        method |-> <<"G", "E", "T">>, raw |-> FALSE,
        description |-> <<"Models by provider.">>,
        params |-> <<"provider">>]
     >>],
    [group |-> <<"d", "e", "f", "a", "u", "l", "t", "s">>,
     endpoints |-> <<
       [name |-> <<"G", "E", "T", " ", "/", "a", "p", "i", "/", "d", "e", "f", "a", "u", "l", "t", "s">>,
        method |-> <<"G", "E", "T">>, raw |-> FALSE,
        description |-> <<"Get defaults.">>,
        params |-> <<>>]
     >>],
    [group |-> <<"m", "o", "d", "e", "l", "s">>,
     endpoints |-> <<
       [name |-> <<"G", "E", "T", " ", "/", "a", "p", "i", "/", "m", "o", "d", "e", "l", "s", "/", "u", "p">>,
        method |-> <<"G", "E", "T">>, raw |-> FALSE,
        description |-> <<"Model health check.">>,
        params |-> <<"key (string, required for auth)">>],
       [name |-> <<"G", "E", "T", " ", "/", "a", "p", "i", "/", "m", "o", "d", "e", "l", "s", "/", "s", "t", "a", "t", "s">>,
        method |-> <<"G", "E", "T">>, raw |-> FALSE,
        description |-> <<"Model stats overview.">>,
        params |-> <<>>],
       [name |-> <<"G", "E", "T", " ", "/", "a", "p", "i", "/", "m", "o", "d", "e", "l", "s", "/", "s", "t", "a", "t", "s", "/", "[", "s", "l", "u", "g", "]">>,
        method |-> <<"G", "E", "T">>, raw |-> FALSE,
        description |-> <<"Per-model stats.">>,
        params |-> <<"slug (string, required)">>],
       [name |-> <<"G", "E", "T", " ", "/", "a", "p", "i", "/", "m", "o", "d", "e", "l", "s", "t", "a", "t", "s">>,
        method |-> <<"G", "E", "T">>, raw |-> FALSE,
        description |-> <<"Model stats (alt).">>,
        params |-> <<>>]
     >>],
    [group |-> <<"f", "i", "m">>,
     endpoints |-> <<
       [name |-> <<"P", "O", "S", "T", " ", "/", "a", "p", "i", "/", "f", "i", "m", "/", "c", "o", "m", "p", "l", "e", "t", "i", "o", "n", "s">>,
        method |-> <<"P", "O", "S", "T">>, raw |-> FALSE,
        description |-> <<"FIM (fill-in-middle) completions.">>,
        params |-> <<"model (string, required, e.g. mistralai/codestral-latest), prompt (string, required), suffix (string, optional), max_tokens (number, optional, max 1000), min_tokens (number, optional), stop (array of strings, optional), stream (boolean, optional)">>]
     >>]
  >>

trpcEndpoints ==
  <<
    [group |-> <<"u", "s", "e", "r">>,
     endpoints |-> <<
       [name |-> <<"g", "e", "t", "A", "u", "t", "h", "P", "r", "o", "v", "i", "d", "e", "r", "s">>,
        method |-> <<"G", "E", "T">>, raw |-> FALSE,
        description |-> <<"Get user auth providers.">>,
        params |-> <<>>],
       [name |-> <<"g", "e", "t", "C", "r", "e", "d", "i", "t", "B", "l", "o", "c", "k", "s">>,
        method |-> <<"G", "E", "T">>, raw |-> FALSE,
        description |-> <<"Get user credit blocks.">>,
        params |-> <<>>],
       [name |-> <<"g", "e", "t", "A", "u", "t", "o", "c", "o", "m", "p", "l", "e", "t", "e", "M", "e", "t", "r", "i", "c", "s">>,
        method |-> <<"G", "E", "T">>, raw |-> FALSE,
        description |-> <<"Get autocomplete metrics.">>,
        params |-> <<"viewType? (personal|all)">>],
       [name |-> <<"g", "e", "t", "A", "u", "t", "o", "T", "o", "p", "U", "p", "P", "a", "y", "m", "e", "n", "t", "M", "e", "t", "h", "o", "d">>,
        method |-> <<"G", "E", "T">>, raw |-> FALSE,
        description |-> <<"Get auto top-up payment method.">>,
        params |-> <<>>]
     >>],
    [group |-> <<"w", "e", "b", "h", "o", "o", "k", "T", "r", "i", "g", "g", "e", "r", "s">>,
     endpoints |-> <<
       [name |-> <<"l", "i", "s", "t">>,
        method |-> <<"G", "E", "T">>, raw |-> FALSE,
        description |-> <<"List all webhook triggers.">>,
        params |-> <<"organizationId?">>],
       [name |-> <<"g", "e", "t">>,
        method |-> <<"G", "E", "T">>, raw |-> FALSE,
        description |-> <<"Get webhook trigger details.">>,
        params |-> <<"triggerId, organizationId?">>],
       [name |-> <<"c", "r", "e", "a", "t", "e">>,
        method |-> <<"P", "O", "S", "T">>, raw |-> FALSE,
        description |-> <<"Create webhook trigger.">>,
        params |-> <<"triggerId, organizationId?, githubRepo, mode (architect|code|ask|debug|orchestrator), model (e.g. minimax/minimax-m2.1:free), promptTemplate, profileId (fetch from agentProfiles.list first), autoCommit?, condenseOnComplete?, webhookAuth? ({\"x-header\":\"secret\"})">>],
       [name |-> <<"u", "p", "d", "a", "t", "e">>,
        method |-> <<"P", "O", "S", "T">>, raw |-> FALSE,
        description |-> <<"Update webhook trigger.">>,
        params |-> <<"triggerId, organizationId?, mode (architect|code|ask|debug|orchestrator), model (e.g. minimax/minimax-m2.1:free), promptTemplate, profileId (fetch from agentProfiles.list first), autoCommit?, condenseOnComplete?, isActive?, webhookAuth? ({\"x-header\":\"secret\"})">>],
       [name |-> <<"d", "e", "l", "e", "t", "e">>,
        method |-> <<"P", "O", "S", "T">>, raw |-> FALSE,
        description |-> <<"Delete webhook trigger.">>,
        params |-> <<"triggerId, organizationId?">>],
       [name |-> <<"l", "i", "s", "t", "R", "e", "q", "u", "e", "s", "t", "s">>,
        method |-> <<"G", "E", "T">>, raw |-> FALSE,
        description |-> <<"List webhook requests.">>,
        params |-> <<"triggerId, organizationId?, limit? (1-100)">>]
     >>],
    [group |-> <<"o", "r", "g", "a", "n", "i", "z", "a", "t", "i", "o", "n", "s">>,
     endpoints |-> <<
       [name |-> <<"l", "i", "s", "t">>,
        method |-> <<"G", "E", "T">>, raw |-> FALSE,
        description |-> <<"List all organizations.">>,
        params |-> <<>>]
     >>],
    [group |-> <<"c", "l", "o", "u", "d", "A", "g", "e", "n", "t">>,
     endpoints |-> <<
       [name |-> <<"g", "e", "t", "S", "e", "s", "s", "i", "o", "n">>,
        method |-> <<"G", "E", "T">>, raw |-> FALSE,
        description |-> <<"Get session details.">>,
        params |-> <<"cloudAgentSessionId">>],
       [name |-> <<"c", "h", "e", "c", "k", "E", "l", "i", "g", "i", "b", "i", "l", "i", "t", "y">>,
        method |-> <<"G", "E", "T">>, raw |-> FALSE,
        description |-> <<"Check CloudAgent eligibility.">>,
        params |-> <<>>],
       [name |-> <<"l", "i", "s", "t", "G", "i", "t", "H", "u", "b", "R", "e", "p", "o", "s", "i", "t", "o", "r", "i", "e", "s">>,
        method |-> <<"G", "E", "T">>, raw |-> FALSE,
        description |-> <<"List GitHub repositories.">>,
        params |-> <<"forceRefresh?">>],
       [name |-> <<"l", "i", "s", "t", "G", "i", "t", "L", "a", "b", "R", "e", "p", "o", "s", "i", "t", "o", "r", "i", "e", "s">>,
        method |-> <<"G", "E", "T">>, raw |-> FALSE,
        description |-> <<"List GitLab repositories.">>,
        params |-> <<"forceRefresh?">>],
       [name |-> <<"c", "h", "e", "c", "k", "D", "e", "m", "o", "R", "e", "p", "o", "s", "i", "t", "o", "r", "y", "F", "o", "r", "k">>,
        method |-> <<"G", "E", "T">>, raw |-> FALSE,
        description |-> <<"Check demo repository fork status.">>,
        params |-> <<>>],
       [name |-> <<"p", "r", "e", "p", "a", "r", "e", "S", "e", "s", "s", "i", "o", "n">>,
        method |-> <<"P", "O", "S", "T">>, raw |-> FALSE,
        description |-> <<"Prepare session. Returns kiloSessionId (UUID) and cloudAgentSessionId (agent_...).">>,
        params |-> <<"prompt, mode (architect|code|ask|debug|orchestrator), model, githubRepo OR gitlabProject (mutually exclusive), profileName?, envVars?, setupCommands?, mcpServers?, upstreamBranch?, autoCommit?">>],
       [name |-> <<"p", "r", "e", "p", "a", "r", "e", "L", "e", "g", "a", "c", "y", "S", "e", "s", "s", "i", "o", "n">>,
        method |-> <<"P", "O", "S", "T">>, raw |-> FALSE,
        description |-> <<"Prepare legacy session.">>,
        params |-> <<"cloudAgentSessionId?, kiloSessionId, prompt, mode, model, githubRepo OR gitlabProject, profileName?, envVars?, setupCommands?, autoCommit?">>],
       [name |-> <<"i", "n", "i", "t", "i", "a", "t", "e", "F", "r", "o", "m", "K", "i", "l", "o", "c", "o", "d", "e", "S", "e", "s", "s", "i", "o", "n", "V", "2">>,
        method |-> <<"P", "O", "S", "T">>, raw |-> FALSE,
        description |-> <<"Initiate from prepared session. Returns executionId + streamUrl.">>,
        params |-> <<"cloudAgentSessionId (for prepared) OR kiloSessionId + githubRepo + prompt + mode + model (for legacy)">>],
       [name |-> <<"i", "n", "i", "t", "i", "a", "t", "e", "S", "e", "s", "s", "i", "o", "n", "S", "t", "r", "e", "a", "m">>,
        method |-> <<"P", "O", "S", "T">>, raw |-> FALSE,
        description |-> <<"Initiate session with SSE streaming.">>,
        params |-> <<"prompt, mode, model, githubRepo OR gitlabProject, profileName?, envVars?, setupCommands?, autoCommit?">>],
       [name |-> <<"i", "n", "i", "t", "i", "a", "t", "e", "F", "r", "o", "m", "K", "i", "l", "o", "c", "o", "d", "e", "S", "e", "s", "s", "i", "o", "n", "S", "t", "r", "e", "a", "m">>,
        method |-> <<"P", "O", "S", "T">>, raw |-> FALSE,
        description |-> <<"Initiate from Kilocode session with SSE streaming.">>,
        params |-> <<"cloudAgentSessionId? OR kiloSessionId + githubRepo + prompt + mode + model">>],
       [name |-> <<"s", "e", "n", "d", "M", "e", "s", "s", "a", "g", "e", "V", "2">>,
        method |-> <<"P", "O", "S", "T">>, raw |-> FALSE,
        description |-> <<"Send message to initiated session. Returns executionId + streamUrl for WebSocket.">>,
        params |-> <<"cloudAgentSessionId, prompt, mode (architect|code|ask|debug|orchestrator), model, autoCommit?">>],
       [name |-> <<"s", "e", "n", "d", "M", "e", "s", "s", "a", "g", "e", "S", "t", "r", "e", "a", "m">>,
        method |-> <<"P", "O", "S", "T">>, raw |-> FALSE,
        description |-> <<"Send message with SSE stream directly.">>,
        params |-> <<"cloudAgentSessionId, prompt, mode, model, autoCommit?">>],
       [name |-> <<"i", "n", "t", "e", "r", "r", "u", "p", "t", "S", "e", "s", "s", "i", "o", "n">>,
        method |-> <<"P", "O", "S", "T">>, raw |-> FALSE,
        description |-> <<"Interrupt running session.">>,
        params |-> <<"sessionId">>],
       [name |-> <<"d", "e", "l", "e", "t", "e", "S", "e", "s", "s", "i", "o", "n">>,
        method |-> <<"P", "O", "S", "T">>, raw |-> FALSE,
        description |-> <<"Delete session.">>,
        params |-> <<"sessionId">>]
     >>],
    [group |-> <<"c", "l", "o", "u", "d", "A", "g", "e", "n", "t", "N", "e", "x", "t">>,
     endpoints |-> <<
       [name |-> <<"g", "e", "t", "S", "e", "s", "s", "i", "o", "n">>,
        method |-> <<"G", "E", "T">>, raw |-> FALSE,
        description |-> <<"Get session details.">>,
        params |-> <<"cloudAgentSessionId">>],
       [name |-> <<"l", "i", "s", "t", "G", "i", "t", "H", "u", "b", "R", "e", "p", "o", "s", "i", "t", "o", "r", "i", "e", "s">>,
        method |-> <<"G", "E", "T">>, raw |-> FALSE,
        description |-> <<"List GitHub repositories.">>,
        params |-> <<"forceRefresh?">>],
       [name |-> <<"l", "i", "s", "t", "G", "i", "t", "L", "a", "b", "R", "e", "p", "o", "s", "i", "t", "o", "r", "i", "e", "s">>,
        method |-> <<"G", "E", "T">>, raw |-> FALSE,
        description |-> <<"List GitLab repositories.">>,
        params |-> <<"forceRefresh?">>],
       [name |-> <<"p", "r", "e", "p", "a", "r", "e", "S", "e", "s", "s", "i", "o", "n">>,
        method |-> <<"P", "O", "S", "T">>, raw |-> FALSE,
        description |-> <<"Prepare session. Returns kiloSessionId (ses_...) and cloudAgentSessionId (agent_...).">>,
        params |-> <<"prompt, mode (plan|code|build|orchestrator|architect|ask|custom), model, githubRepo OR gitlabProject (mutually exclusive), profileName?, envVars?, setupCommands?, mcpServers?, upstreamBranch?, autoCommit?">>],
       [name |-> <<"i", "n", "i", "t", "i", "a", "t", "e", "F", "r", "o", "m", "P", "r", "e", "p", "a", "r", "e", "d", "S", "e", "s", "s", "i", "o", "n">>,
        method |-> <<"P", "O", "S", "T">>, raw |-> FALSE,
        description |-> <<"Initiate prepared session. Returns executionId and streamUrl.">>,
        params |-> <<"cloudAgentSessionId">>],
       [name |-> <<"i", "n", "t", "e", "r", "r", "u", "p", "t", "S", "e", "s", "s", "i", "o", "n">>,
        method |-> <<"P", "O", "S", "T">>, raw |-> FALSE,
        description |-> <<"Interrupt session.">>,
        params |-> <<"sessionId">>],
       [name |-> <<"s", "e", "n", "d", "M", "e", "s", "s", "a", "g", "e">>,
        method |-> <<"P", "O", "S", "T">>, raw |-> FALSE,
        description |-> <<"Send message to initiated session. Only supports plan|build modes. Returns executionId and streamUrl.">>,
        params |-> <<"cloudAgentSessionId, prompt, mode (plan|build), model, autoCommit?">>]
     >>],
    [group |-> <<"c", "l", "i", "S", "e", "s", "s", "i", "o", "n", "s">>,
     endpoints |-> <<
       [name |-> <<"l", "i", "s", "t">>,
        method |-> <<"G", "E", "T">>, raw |-> FALSE,
        description |-> <<"List CLI sessions from CloudAgent.">>,
        params |-> <<>>],
       [name |-> <<"g", "e", "t">>,
        method |-> <<"G", "E", "T">>, raw |-> FALSE,
        description |-> <<"Get CLI session details.">>,
        params |-> <<"session_id">>],
       [name |-> <<"s", "e", "a", "r", "c", "h">>,
        method |-> <<"G", "E", "T">>, raw |-> FALSE,
        description |-> <<"Search CLI sessions.">>,
        params |-> <<"search_string, limit?, offset?, createdOnPlatform?, organizationId?">>],
       [name |-> <<"g", "e", "t", "S", "e", "s", "s", "i", "o", "n", "M", "e", "s", "s", "a", "g", "e", "s">>,
        method |-> <<"G", "E", "T">>, raw |-> FALSE,
        description |-> <<"Get CLI session messages.">>,
        params |-> <<"session_id">>],
       [name |-> <<"g", "e", "t", "S", "e", "s", "s", "i", "o", "n", "A", "p", "i", "C", "o", "n", "v", "e", "r", "s", "a", "t", "i", "o", "n", "H", "i", "s", "t", "o", "r", "y">>,
        method |-> <<"G", "E", "T">>, raw |-> FALSE,
        description |-> <<"Get CLI session API conversation history.">>,
        params |-> <<"session_id">>],
       [name |-> <<"g", "e", "t", "S", "e", "s", "s", "i", "o", "n", "G", "i", "t", "S", "t", "a", "t", "e">>,
        method |-> <<"G", "E", "T">>, raw |-> FALSE,
        description |-> <<"Get CLI session git state.">>,
        params |-> <<"session_id">>],
       [name |-> <<"g", "e", "t", "B", "y", "C", "l", "o", "u", "d", "A", "g", "e", "n", "t", "S", "e", "s", "s", "i", "o", "n", "I", "d">>,
        method |-> <<"G", "E", "T">>, raw |-> FALSE,
        description |-> <<"Get CLI session by cloud agent session ID (agent_...).">>,
        params |-> <<"cloud_agent_session_id">>],
       [name |-> <<"c", "r", "e", "a", "t", "e", "V", "2">>,
        method |-> <<"P", "O", "S", "T">>, raw |-> FALSE,
        description |-> <<"Create CLI session.">>,
        params |-> <<"created_on_platform (cloud-agent|cli|agent-manager), title?, git_url?, version?, last_mode?, last_model?, organization_id?, parent_session_id?, cloud_agent_session_id?">>],
       [name |-> <<"u", "p", "d", "a", "t", "e">>,
        method |-> <<"P", "O", "S", "T">>, raw |-> FALSE,
        description |-> <<"Update CLI session.">>,
        params |-> <<"session_id, title?, git_url?, version?, last_mode?, last_model?, organization_id?">>],
       [name |-> <<"d", "e", "l", "e", "t", "e">>,
        method |-> <<"P", "O", "S", "T">>, raw |-> FALSE,
        description |-> <<"Delete CLI session.">>,
        params |-> <<"session_id">>],
       [name |-> <<"f", "o", "r", "k">>,
        method |-> <<"P", "O", "S", "T">>, raw |-> FALSE,
        description |-> <<"Fork CLI session.">>,
        params |-> <<"share_or_session_id, created_on_platform (cloud-agent|cli|agent-manager)">>],
       [name |-> <<"f", "o", "r", "k", "F", "o", "r", "R", "e", "v", "i", "e", "w">>,
        method |-> <<"P", "O", "S", "T">>, raw |-> FALSE,
        description |-> <<"Fork CLI session for review.">>,
        params |-> <<"review_id, created_on_platform (cloud-agent|cli|agent-manager)">>],
       [name |-> <<"s", "h", "a", "r", "e">>,
        method |-> <<"P", "O", "S", "T">>, raw |-> FALSE,
        description |-> <<"Share CLI session.">>,
        params |-> <<"session_id, shared_state (public|organization)">>],
       [name |-> <<"s", "h", "a", "r", "e", "F", "o", "r", "W", "e", "b", "h", "o", "o", "k", "T", "r", "i", "g", "g", "e", "r">>,
        method |-> <<"P", "O", "S", "T">>, raw |-> FALSE,
        description |-> <<"Share CLI session for webhook trigger.">>,
        params |-> <<"kilo_session_id, trigger_id, organization_id?">>],
       [name |-> <<"l", "i", "n", "k", "C", "l", "o", "u", "d", "A", "g", "e", "n", "t">>,
        method |-> <<"P", "O", "S", "T">>, raw |-> FALSE,
        description |-> <<"Link cloud agent to CLI session.">>,
        params |-> <<"kilo_session_id, cloud_agent_session_id">>]
     >>],
    [group |-> <<"c", "l", "i", "S", "e", "s", "s", "i", "o", "n", "s", "V", "2">>,
     endpoints |-> <<
       [name |-> <<"l", "i", "s", "t">>,
        method |-> <<"G", "E", "T">>, raw |-> FALSE,
        description |-> <<"List CLI sessions V2 (CloudAgentNext).">>,
        params |-> <<>>],
       [name |-> <<"g", "e", "t">>,
        method |-> <<"G", "E", "T">>, raw |-> FALSE,
        description |-> <<"Get CLI session details V2.">>,
        params |-> <<"session_id">>],
       [name |-> <<"g", "e", "t", "S", "e", "s", "s", "i", "o", "n", "M", "e", "s", "s", "a", "g", "e", "s">>,
        method |-> <<"G", "E", "T">>, raw |-> FALSE,
        description |-> <<"Get CLI session V2 messages (currently returns empty list).">>,
        params |-> <<"session_id">>],
       [name |-> <<"g", "e", "t", "B", "y", "C", "l", "o", "u", "d", "A", "g", "e", "n", "t", "S", "e", "s", "s", "i", "o", "n", "I", "d">>,
        method |-> <<"G", "E", "T">>, raw |-> FALSE,
        description |-> <<"Get CLI session V2 by cloud agent session ID (agent_...).">>,
        params |-> <<"cloud_agent_session_id">>],
       [name |-> <<"g", "e", "t", "W", "i", "t", "h", "R", "u", "n", "t", "i", "m", "e", "S", "t", "a", "t", "e">>,
        method |-> <<"G", "E", "T">>, raw |-> FALSE,
        description |-> <<"Get CLI session V2 with runtime state from DO.">>,
        params |-> <<"session_id">>]
     >>],
    [group |-> <<"a", "g", "e", "n", "t", "P", "r", "o", "f", "i", "l", "e", "s">>,
     endpoints |-> <<
       [name |-> <<"l", "i", "s", "t">>,
        method |-> <<"G", "E", "T">>, raw |-> FALSE,
        description |-> <<"List all agent profiles.">>,
        params |-> <<>>],
       [name |-> <<"g", "e", "t">>,
        method |-> <<"G", "E", "T">>, raw |-> FALSE,
        description |-> <<"Get agent profile details.">>,
        params |-> <<"id">>],
       [name |-> <<"c", "r", "e", "a", "t", "e">>,
        method |-> <<"P", "O", "S", "T">>, raw |-> FALSE,
        description |-> <<"Create agent profile.">>,
        params |-> <<"name, envVars">>],
       [name |-> <<"u", "p", "d", "a", "t", "e">>,
        method |-> <<"P", "O", "S", "T">>, raw |-> FALSE,
        description |-> <<"Update agent profile.">>,
        params |-> <<"id, name?, envVars?">>],
       [name |-> <<"d", "e", "l", "e", "t", "e">>,
        method |-> <<"P", "O", "S", "T">>, raw |-> FALSE,
        description |-> <<"Delete agent profile.">>,
        params |-> <<"id">>],
       [name |-> <<"s", "e", "t", "V", "a", "r">>,
        method |-> <<"P", "O", "S", "T">>, raw |-> FALSE,
        description |-> <<"Set agent profile variable.">>,
        params |-> <<"id, key, value">>],
       [name |-> <<"d", "e", "l", "e", "t", "e", "V", "a", "r">>,
        method |-> <<"P", "O", "S", "T">>, raw |-> FALSE,
        description |-> <<"Delete agent profile variable.">>,
        params |-> <<"id, key">>],
       [name |-> <<"s", "e", "t", "A", "s", "D", "e", "f", "a", "u", "l", "t">>,
        method |-> <<"P", "O", "S", "T">>, raw |-> FALSE,
        description |-> <<"Set agent profile as default.">>,
        params |-> <<"id">>],
       [name |-> <<"c", "l", "e", "a", "r", "D", "e", "f", "a", "u", "l", "t">>,
        method |-> <<"P", "O", "S", "T">>, raw |-> FALSE,
        description |-> <<"Clear agent profile default.">>,
        params |-> <<>>],
       [name |-> <<"s", "e", "t", "C", "o", "m", "m", "a", "n", "d", "s">>,
        method |-> <<"P", "O", "S", "T">>, raw |-> FALSE,
        description |-> <<"Set agent profile commands.">>,
        params |-> <<"id, commands">>],
       [name |-> <<"l", "i", "s", "t", "C", "o", "m", "b", "i", "n", "e", "d">>,
        method |-> <<"G", "E", "T">>, raw |-> FALSE,
        description |-> <<"List combined agent profiles.">>,
        params |-> <<"organizationId">>]
     >>],
    [group |-> <<"c", "o", "d", "e", "I", "n", "d", "e", "x", "i", "n", "g">>,
     endpoints |-> <<
       [name |-> <<"s", "e", "a", "r", "c", "h">>,
        method |-> <<"G", "E", "T">>, raw |-> FALSE,
        description |-> <<"Search code index.">>,
        params |-> <<"query, organizationId?, repositoryId?">>],
       [name |-> <<"g", "e", "t", "M", "a", "n", "i", "f", "e", "s", "t">>,
        method |-> <<"G", "E", "T">>, raw |-> FALSE,
        description |-> <<"Get code index manifest.">>,
        params |-> <<"repositoryId">>],
       [name |-> <<"i", "s", "E", "n", "a", "b", "l", "e", "d">>,
        method |-> <<"G", "E", "T">>, raw |-> FALSE,
        description |-> <<"Check if code indexing is enabled.">>,
        params |-> <<"repositoryId">>],
       [name |-> <<"u", "p", "s", "e", "r", "t", "B", "y", "F", "i", "l", "e">>,
        method |-> <<"P", "O", "S", "T">>, raw |-> FALSE,
        description |-> <<"Upsert code index by file.">>,
        params |-> <<"repositoryId, filePath, content">>],
       [name |-> <<"d", "e", "l", "e", "t", "e">>,
        method |-> <<"P", "O", "S", "T">>, raw |-> FALSE,
        description |-> <<"Delete code index.">>,
        params |-> <<"repositoryId">>]
     >>],
    [group |-> <<"k", "i", "l", "o", "P", "a", "s", "s">>,
     endpoints |-> <<
       [name |-> <<"g", "e", "t", "S", "t", "a", "t", "e">>,
        method |-> <<"G", "E", "T">>, raw |-> FALSE,
        description |-> <<"Get Kilo Pass state.">>,
        params |-> <<>>],
       [name |-> <<"g", "e", "t", "C", "h", "e", "c", "k", "o", "u", "t", "R", "e", "t", "u", "r", "n", "S", "t", "a", "t", "e">>,
        method |-> <<"G", "E", "T">>, raw |-> FALSE,
        description |-> <<"Get checkout return state.">>,
        params |-> <<"sessionId">>],
       [name |-> <<"g", "e", "t", "A", "v", "e", "r", "a", "g", "e", "M", "o", "n", "t", "h", "l", "y", "U", "s", "a", "g", "e", "L", "a", "s", "t", "3", "M", "o", "n", "t", "h", "s">>,
        method |-> <<"G", "E", "T">>, raw |-> FALSE,
        description |-> <<"Get average monthly usage last 3 months.">>,
        params |-> <<>>],
       [name |-> <<"g", "e", "t", "F", "i", "r", "s", "t", "M", "o", "n", "t", "h", "P", "r", "o", "m", "o", "E", "l", "i", "g", "i", "b", "i", "l", "i", "t", "y">>,
        method |-> <<"G", "E", "T">>, raw |-> FALSE,
        description |-> <<"Get first month promo eligibility.">>,
        params |-> <<>>]
     >>],
    [group |-> <<"b", "y", "o", "k">>,
     endpoints |-> <<
       [name |-> <<"l", "i", "s", "t">>,
        method |-> <<"G", "E", "T">>, raw |-> FALSE,
        description |-> <<"List all BYOK (Bring Your Own Key) entries.">>,
        params |-> <<>>],
       [name |-> <<"c", "r", "e", "a", "t", "e">>,
        method |-> <<"P", "O", "S", "T">>, raw |-> FALSE,
        description |-> <<"Create BYOK entry.">>,
        params |-> <<"provider_id, api_key">>],
       [name |-> <<"u", "p", "d", "a", "t", "e">>,
        method |-> <<"P", "O", "S", "T">>, raw |-> FALSE,
        description |-> <<"Update BYOK entry.">>,
        params |-> <<"id, api_key">>],
       [name |-> <<"d", "e", "l", "e", "t", "e">>,
        method |-> <<"P", "O", "S", "T">>, raw |-> FALSE,
        description |-> <<"Delete BYOK entry.">>,
        params |-> <<"id">>]
     >>],
    [group |-> <<"a", "p", "p", "B", "u", "i", "l", "d", "e", "r">>,
     endpoints |-> <<
       [name |-> <<"c", "h", "e", "c", "k", "E", "l", "i", "g", "i", "b", "i", "l", "i", "t", "y">>,
        method |-> <<"G", "E", "T">>, raw |-> FALSE,
        description |-> <<"Check app builder eligibility.">>,
        params |-> <<>>],
       [name |-> <<"l", "i", "s", "t", "P", "r", "o", "j", "e", "c", "t", "s">>,
        method |-> <<"G", "E", "T">>, raw |-> FALSE,
        description |-> <<"List app builder projects.">>,
        params |-> <<>>],
       [name |-> <<"g", "e", "t", "P", "r", "o", "j", "e", "c", "t">>,
        method |-> <<"G", "E", "T">>, raw |-> FALSE,
        description |-> <<"Get app builder project details.">>,
        params |-> <<"projectId">>],
       [name |-> <<"c", "r", "e", "a", "t", "e", "P", "r", "o", "j", "e", "c", "t">>,
        method |-> <<"P", "O", "S", "T">>, raw |-> FALSE,
        description |-> <<"Create app builder project. (Next step: startSession)">>,
        params |-> <<"prompt, model, images?, title?, template?, mode? (code|ask)">>],
       [name |-> <<"s", "t", "a", "r", "t", "S", "e", "s", "s", "i", "o", "n">>,
        method |-> <<"P", "O", "S", "T">>, raw |-> FALSE,
        description |-> <<"Start/initiate app builder session. (Poll with: cloudAgent.getSession field execution.status=null, Next step: deployProject)">>,
        params |-> <<"projectId">>],
       [name |-> <<"d", "e", "p", "l", "o", "y", "P", "r", "o", "j", "e", "c", "t">>,
        method |-> <<"P", "O", "S", "T">>, raw |-> FALSE,
        description |-> <<"Deploy app builder project. (Poll with: deployments.getDeployment field latestBuild.status!=building. Next step: getBuildEvents)">>,
        params |-> <<"projectId">>],
       [name |-> <<"i", "n", "t", "e", "r", "r", "u", "p", "t", "S", "e", "s", "s", "i", "o", "n">>,
        method |-> <<"P", "O", "S", "T">>, raw |-> FALSE,
        description |-> <<"Interrupt app builder session.">>,
        params |-> <<"projectId">>],
       [name |-> <<"s", "e", "n", "d", "M", "e", "s", "s", "a", "g", "e">>,
        method |-> <<"P", "O", "S", "T">>, raw |-> FALSE,
        description |-> <<"Send message to app builder.">>,
        params |-> <<"projectId, message">>],
       [name |-> <<"g", "e", "t", "P", "r", "e", "v", "i", "e", "w", "U", "r", "l">>,
        method |-> <<"G", "E", "T">>, raw |-> FALSE,
        description |-> <<"Get app builder preview URL.">>,
        params |-> <<"projectId">>],
       [name |-> <<"g", "e", "t", "I", "m", "a", "g", "e", "U", "p", "l", "o", "a", "d", "U", "r", "l">>,
        method |-> <<"P", "O", "S", "T">>, raw |-> FALSE,
        description |-> <<"Get image upload URL.">>,
        params |-> <<"messageUuid, imageId, contentType (image/png|image/jpeg|image/webp|image/gif), contentLength">>],
       [name |-> <<"g", "e", "n", "e", "r", "a", "t", "e", "C", "l", "o", "n", "e", "T", "o", "k", "e", "n">>,
        method |-> <<"P", "O", "S", "T">>, raw |-> FALSE,
        description |-> <<"Generate clone token.">>,
        params |-> <<"projectId">>],
       [name |-> <<"t", "r", "i", "g", "g", "e", "r", "B", "u", "i", "l", "d">>,
        method |-> <<"P", "O", "S", "T">>, raw |-> FALSE,
        description |-> <<"Trigger app builder build.">>,
        params |-> <<"projectId">>],
       [name |-> <<"d", "e", "l", "e", "t", "e", "P", "r", "o", "j", "e", "c", "t">>,
        method |-> <<"P", "O", "S", "T">>, raw |-> FALSE,
        description |-> <<"Delete app builder project.">>,
        params |-> <<"projectId">>]
     >>],
    [group |-> <<"d", "e", "p", "l", "o", "y", "m", "e", "n", "t", "s">>,
     endpoints |-> <<
       [name |-> <<"l", "i", "s", "t", "D", "e", "p", "l", "o", "y", "m", "e", "n", "t", "s">>,
        method |-> <<"G", "E", "T">>, raw |-> FALSE,
        description |-> <<"List all deployments.">>,
        params |-> <<>>],
       [name |-> <<"g", "e", "t", "D", "e", "p", "l", "o", "y", "m", "e", "n", "t">>,
        method |-> <<"G", "E", "T">>, raw |-> FALSE,
        description |-> <<"Get deployment details.">>,
        params |-> <<"id">>],
       [name |-> <<"c", "r", "e", "a", "t", "e", "D", "e", "p", "l", "o", "y", "m", "e", "n", "t">>,
        method |-> <<"P", "O", "S", "T">>, raw |-> FALSE,
        description |-> <<"Create deployment.">>,
        params |-> <<"platformIntegrationId, repositoryFullName, branch, envVars?">>],
       [name |-> <<"s", "e", "t", "E", "n", "v", "V", "a", "r">>,
        method |-> <<"P", "O", "S", "T">>, raw |-> FALSE,
        description |-> <<"Set deployment environment variable.">>,
        params |-> <<"deploymentId, key, value, isSecret">>],
       [name |-> <<"d", "e", "l", "e", "t", "e", "D", "e", "p", "l", "o", "y", "m", "e", "n", "t">>,
        method |-> <<"P", "O", "S", "T">>, raw |-> FALSE,
        description |-> <<"Delete deployment.">>,
        params |-> <<"id">>],
       [name |-> <<"c", "h", "e", "c", "k", "D", "e", "p", "l", "o", "y", "m", "e", "n", "t", "E", "l", "i", "g", "i", "b", "i", "l", "i", "t", "y">>,
        method |-> <<"G", "E", "T">>, raw |-> FALSE,
        description |-> <<"Check deployment eligibility.">>,
        params |-> <<>>],
       [name |-> <<"d", "e", "l", "e", "t", "e", "E", "n", "v", "V", "a", "r">>,
        method |-> <<"P", "O", "S", "T">>, raw |-> FALSE,
        description |-> <<"Delete deployment env var.">>,
        params |-> <<"deploymentId, key">>],
       [name |-> <<"r", "e", "n", "a", "m", "e", "E", "n", "v", "V", "a", "r">>,
        method |-> <<"P", "O", "S", "T">>, raw |-> FALSE,
        description |-> <<"Rename deployment env var.">>,
        params |-> <<"deploymentId, oldKey, newKey">>],
       [name |-> <<"l", "i", "s", "t", "E", "n", "v", "V", "a", "r", "s">>,
        method |-> <<"G", "E", "T">>, raw |-> FALSE,
        description |-> <<"List deployment env vars.">>,
        params |-> <<"deploymentId">>],
       [name |-> <<"r", "e", "d", "e", "p", "l", "o", "y">>,
        method |-> <<"P", "O", "S", "T">>, raw |-> FALSE,
        description |-> <<"Redeploy.">>,
        params |-> <<"id">>],
       [name |-> <<"c", "a", "n", "c", "e", "l", "B", "u", "i", "l", "d">>,
        method |-> <<"P", "O", "S", "T">>, raw |-> FALSE,
        description |-> <<"Cancel build.">>,
        params |-> <<"deploymentId, buildId">>],
       [name |-> <<"g", "e", "t", "B", "u", "i", "l", "d", "E", "v", "e", "n", "t", "s">>,
        method |-> <<"G", "E", "T">>, raw |-> FALSE,
        description |-> <<"Get build events.">>,
        params |-> <<"deploymentId, buildId, limit?, afterEventId?">>]
     >>],
    [group |-> <<"a", "u", "t", "o", "T", "r", "i", "a", "g", "e">>,
     endpoints |-> <<
       [name |-> <<"l", "i", "s", "t", "T", "i", "c", "k", "e", "t", "s", "F", "o", "r", "U", "s", "e", "r">>,
        method |-> <<"G", "E", "T">>, raw |-> FALSE,
        description |-> <<"List auto triage tickets for user.">>,
        params |-> <<"limit?, offset?, status? (pending|analyzing|actioned|failed|skipped), classification? (bug|feature|question|duplicate|unclear), repoFullName?">>],
       [name |-> <<"g", "e", "t", "T", "i", "c", "k", "e", "t">>,
        method |-> <<"G", "E", "T">>, raw |-> FALSE,
        description |-> <<"Get auto triage ticket details.">>,
        params |-> <<"ticketId">>],
       [name |-> <<"r", "e", "t", "r", "i", "g", "g", "e", "r">>,
        method |-> <<"P", "O", "S", "T">>, raw |-> FALSE,
        description |-> <<"Retrigger a failed triage ticket.">>,
        params |-> <<"ticketId">>]
     >>],
    [group |-> <<"a", "u", "t", "o", "F", "i", "x">>,
     endpoints |-> <<
       [name |-> <<"l", "i", "s", "t", "T", "i", "c", "k", "e", "t", "s", "F", "o", "r", "U", "s", "e", "r">>,
        method |-> <<"G", "E", "T">>, raw |-> FALSE,
        description |-> <<"List auto fix tickets for user.">>,
        params |-> <<"limit?, offset?, status?, classification?, repoFullName?">>],
       [name |-> <<"g", "e", "t", "T", "i", "c", "k", "e", "t">>,
        method |-> <<"G", "E", "T">>, raw |-> FALSE,
        description |-> <<"Get auto fix ticket details.">>,
        params |-> <<"ticketId">>],
       [name |-> <<"r", "e", "t", "r", "i", "g", "g", "e", "r">>,
        method |-> <<"P", "O", "S", "T">>, raw |-> FALSE,
        description |-> <<"Retrigger a failed fix ticket.">>,
        params |-> <<"ticketId">>],
       [name |-> <<"c", "a", "n", "c", "e", "l">>,
        method |-> <<"P", "O", "S", "T">>, raw |-> FALSE,
        description |-> <<"Cancel a fix ticket.">>,
        params |-> <<"ticketId">>]
     >>],
    [group |-> <<"c", "o", "d", "e", "R", "e", "v", "i", "e", "w", "s">>,
     endpoints |-> <<
       [name |-> <<"l", "i", "s", "t", "F", "o", "r", "U", "s", "e", "r">>,
        method |-> <<"G", "E", "T">>, raw |-> FALSE,
        description |-> <<"List code reviews for user.">>,
        params |-> <<"limit?, offset?, status?, repoFullName?">>],
       [name |-> <<"g", "e", "t">>,
        method |-> <<"G", "E", "T">>, raw |-> FALSE,
        description |-> <<"Get code review details.">>,
        params |-> <<"reviewId">>],
       [name |-> <<"c", "a", "n", "c", "e", "l">>,
        method |-> <<"P", "O", "S", "T">>, raw |-> FALSE,
        description |-> <<"Cancel code review.">>,
        params |-> <<"reviewId">>],
       [name |-> <<"r", "e", "t", "r", "i", "g", "g", "e", "r">>,
        method |-> <<"P", "O", "S", "T">>, raw |-> FALSE,
        description |-> <<"Retrigger code review.">>,
        params |-> <<"reviewId">>]
     >>],
    [group |-> <<"p", "e", "r", "s", "o", "n", "a", "l", "R", "e", "v", "i", "e", "w", "A", "g", "e", "n", "t">>,
     endpoints |-> <<
       [name |-> <<"g", "e", "t", "G", "i", "t", "H", "u", "b", "S", "t", "a", "t", "u", "s">>,
        method |-> <<"G", "E", "T">>, raw |-> FALSE,
        description |-> <<"Get GitHub App installation status for personal reviews.">>,
        params |-> <<>>],
       [name |-> <<"l", "i", "s", "t", "G", "i", "t", "H", "u", "b", "R", "e", "p", "o", "s", "i", "t", "o", "r", "i", "e", "s">>,
        method |-> <<"G", "E", "T">>, raw |-> FALSE,
        description |-> <<"List GitHub repositories for personal reviews.">>,
        params |-> <<"forceRefresh?">>],
       [name |-> <<"g", "e", "t", "R", "e", "v", "i", "e", "w", "C", "o", "n", "f", "i", "g">>,
        method |-> <<"G", "E", "T">>, raw |-> FALSE,
        description |-> <<"Get personal review agent config.">>,
        params |-> <<>>],
       [name |-> <<"s", "a", "v", "e", "R", "e", "v", "i", "e", "w", "C", "o", "n", "f", "i", "g">>,
        method |-> <<"P", "O", "S", "T">>, raw |-> FALSE,
        description |-> <<"Save personal review agent config.">>,
        params |-> <<"reviewStyle (strict|balanced|lenient), focusAreas, customInstructions?, maxReviewTimeMinutes (5-30), modelSlug, repositorySelectionMode? (all|selected), selectedRepositoryIds?">>],
       [name |-> <<"t", "o", "g", "g", "l", "e", "R", "e", "v", "i", "e", "w", "A", "g", "e", "n", "t">>,
        method |-> <<"P", "O", "S", "T">>, raw |-> FALSE,
        description |-> <<"Toggle personal review agent.">>,
        params |-> <<"isEnabled">>]
     >>],
    [group |-> <<"g", "i", "t", "h", "u", "b", "A", "p", "p", "s">>,
     endpoints |-> <<
       [name |-> <<"l", "i", "s", "t", "I", "n", "t", "e", "g", "r", "a", "t", "i", "o", "n", "s">>,
        method |-> <<"G", "E", "T">>, raw |-> FALSE,
        description |-> <<"List GitHub app integrations.">>,
        params |-> <<>>],
       [name |-> <<"g", "e", "t", "I", "n", "s", "t", "a", "l", "l", "a", "t", "i", "o", "n">>,
        method |-> <<"G", "E", "T">>, raw |-> FALSE,
        description |-> <<"Get GitHub app installation.">>,
        params |-> <<>>],
       [name |-> <<"c", "h", "e", "c", "k", "U", "s", "e", "r", "P", "e", "n", "d", "i", "n", "g", "I", "n", "s", "t", "a", "l", "l", "a", "t", "i", "o", "n">>,
        method |-> <<"G", "E", "T">>, raw |-> FALSE,
        description |-> <<"Check user pending GitHub installation.">>,
        params |-> <<>>],
       [name |-> <<"c", "a", "n", "c", "e", "l", "P", "e", "n", "d", "i", "n", "g", "I", "n", "s", "t", "a", "l", "l", "a", "t", "i", "o", "n">>,
        method |-> <<"P", "O", "S", "T">>, raw |-> FALSE,
        description |-> <<"Cancel pending installation.">>,
        params |-> <<>>],
       [name |-> <<"l", "i", "s", "t", "R", "e", "p", "o", "s", "i", "t", "o", "r", "i", "e", "s">>,
        method |-> <<"G", "E", "T">>, raw |-> FALSE,
        description |-> <<"List GitHub repositories.">>,
        params |-> <<"integrationId, forceRefresh?">>],
       [name |-> <<"l", "i", "s", "t", "B", "r", "a", "n", "c", "h", "e", "s">>,
        method |-> <<"G", "E", "T">>, raw |-> FALSE,
        description |-> <<"List GitHub branches.">>,
        params |-> <<"integrationId, repositoryFullName">>],
       [name |-> <<"r", "e", "f", "r", "e", "s", "h", "I", "n", "s", "t", "a", "l", "l", "a", "t", "i", "o", "n">>,
        method |-> <<"P", "O", "S", "T">>, raw |-> FALSE,
        description |-> <<"Refresh installation.">>,
        params |-> <<>>],
       [name |-> <<"u", "n", "i", "n", "s", "t", "a", "l", "l", "A", "p", "p">>,
        method |-> <<"P", "O", "S", "T">>, raw |-> FALSE,
        description |-> <<"Uninstall GitHub app.">>,
        params |-> <<>>]
     >>],
    [group |-> <<"g", "i", "t", "l", "a", "b">>,
     endpoints |-> <<
       [name |-> <<"g", "e", "t", "I", "n", "s", "t", "a", "l", "l", "a", "t", "i", "o", "n">>,
        method |-> <<"G", "E", "T">>, raw |-> FALSE,
        description |-> <<"Get GitLab installation.">>,
        params |-> <<>>],
       [name |-> <<"d", "i", "s", "c", "o", "n", "n", "e", "c", "t">>,
        method |-> <<"P", "O", "S", "T">>, raw |-> FALSE,
        description |-> <<"Disconnect GitLab.">>,
        params |-> <<>>],
       [name |-> <<"d", "i", "s", "c", "o", "n", "n", "e", "c", "t", "O", "r", "g">>,
        method |-> <<"P", "O", "S", "T">>, raw |-> FALSE,
        description |-> <<"Disconnect GitLab organization.">>,
        params |-> <<"organizationId">>],
       [name |-> <<"g", "e", "t", "I", "n", "t", "e", "g", "r", "a", "t", "i", "o", "n">>,
        method |-> <<"G", "E", "T">>, raw |-> FALSE,
        description |-> <<"Get GitLab integration.">>,
        params |-> <<"organizationId?">>],
       [name |-> <<"l", "i", "s", "t", "R", "e", "p", "o", "s", "i", "t", "o", "r", "i", "e", "s">>,
        method |-> <<"G", "E", "T">>, raw |-> FALSE,
        description |-> <<"List GitLab repositories.">>,
        params |-> <<"organizationId?, integrationId, forceRefresh?">>],
       [name |-> <<"l", "i", "s", "t", "B", "r", "a", "n", "c", "h", "e", "s">>,
        method |-> <<"G", "E", "T">>, raw |-> FALSE,
        description |-> <<"List GitLab branches.">>,
        params |-> <<"organizationId?, integrationId, projectPath">>],
       [name |-> <<"r", "e", "f", "r", "e", "s", "h", "R", "e", "p", "o", "s", "i", "t", "o", "r", "i", "e", "s">>,
        method |-> <<"P", "O", "S", "T">>, raw |-> FALSE,
        description |-> <<"Refresh GitLab repositories.">>,
        params |-> <<"organizationId?, integrationId">>]
     >>],
    [group |-> <<"s", "l", "a", "c", "k">>,
     endpoints |-> <<
       [name |-> <<"g", "e", "t", "I", "n", "s", "t", "a", "l", "l", "a", "t", "i", "o", "n">>,
        method |-> <<"G", "E", "T">>, raw |-> FALSE,
        description |-> <<"Get Slack installation.">>,
        params |-> <<>>],
       [name |-> <<"g", "e", "t", "O", "A", "u", "t", "h", "U", "r", "l">>,
        method |-> <<"G", "E", "T">>, raw |-> FALSE,
        description |-> <<"Get Slack OAuth URL.">>,
        params |-> <<>>],
       [name |-> <<"u", "n", "i", "n", "s", "t", "a", "l", "l", "A", "p", "p">>,
        method |-> <<"P", "O", "S", "T">>, raw |-> FALSE,
        description |-> <<"Uninstall Slack app.">>,
        params |-> <<>>],
       [name |-> <<"t", "e", "s", "t", "C", "o", "n", "n", "e", "c", "t", "i", "o", "n">>,
        method |-> <<"P", "O", "S", "T">>, raw |-> FALSE,
        description |-> <<"Test Slack connection.">>,
        params |-> <<>>],
       [name |-> <<"s", "e", "n", "d", "T", "e", "s", "t", "M", "e", "s", "s", "a", "g", "e">>,
        method |-> <<"P", "O", "S", "T">>, raw |-> FALSE,
        description |-> <<"Send test Slack message.">>,
        params |-> <<>>],
       [name |-> <<"u", "p", "d", "a", "t", "e", "M", "o", "d", "e", "l">>,
        method |-> <<"P", "O", "S", "T">>, raw |-> FALSE,
        description |-> <<"Update Slack model.">>,
        params |-> <<"modelSlug">>]
     >>]
  >>

----------------------------------------------------------------------------
(* Module constants *)

baseUrl ==
  <<"h", "t", "t", "p", "s", ":", "/", "/", "a", "p", "p", ".", "k", "i", "l", "o",
    ".", "a", "i", "/", "a", "p", "i">>

GET == <<"G", "E", "T">>
POST == <<"P", "O", "S", "T">>
PUT == <<"P", "U", "T">>
DELETE == <<"D", "E", "L", "E", "T", "E">>

HttpMethod == {GET, POST, PUT, DELETE}

AuthorizationName ==
  <<"A", "u", "t", "h", "o", "r", "i", "z", "a", "t", "i", "o", "n">>
ContentTypeName == <<"C", "o", "n", "t", "e", "n", "t", "-", "T", "y", "p", "e">>
ApplicationJson ==
  <<"a", "p", "p", "l", "i", "c", "a", "t", "i", "o", "n", "/", "j", "s", "o", "n">>
Bearer == <<"B", "e", "a", "r", "e", "r", " ">>

\* the headers object, built once from process.env.KILO_API_KEY; an unset
\* variable reads as undefined and the template literal converts it
MakeHeaders(apiKey) ==
  <<Prop(AuthorizationName, Bearer \o ToStr(apiKey)),
    Prop(ContentTypeName, ApplicationJson)>>

NoBody == [given |-> FALSE, text |-> <<>>]
Body(text) == [given |-> TRUE, text |-> text]

\* a call of fetch(url, { method, headers }) or fetch(url, { method, headers, body })
Fetch(url, method, hdrs, body) ==
  [url |-> url, method |-> method, headers |-> hdrs, body |-> body]

----------------------------------------------------------------------------
(* Errors and completions of a procedure's execute *)

Error(name, message) == [name |-> name, message |-> message]

\* error.stack: the name and message followed by the engine's frames
Stack(error) ==
  error.name \o <<":", " ">> \o error.message \o <<"\n", "    at <anonymous>">>

\* the promise of a procedure's execute: pending, fulfilled or rejected
Pending == [kind |-> "pending", value |-> JUndefined, error |-> Error(<<>>, <<>>)]
Returned(value) == [kind |-> "returned", value |-> value, error |-> Error(<<>>, <<>>)]
Thrown(error) == [kind |-> "thrown", value |-> JUndefined, error |-> error]

\* the messages of the errors the runtime raises (engine-provided text)
FetchFailedMessage == <<"fetch failed">>
BodyReadFailedMessage == <<"terminated">>
NotAFunctionMessage == <<"procedure.execute is not a function">>

returnRawName == <<"r", "e", "t", "u", "r", "n", "R", "a", "w">>
rawName == <<"_", "r", "a", "w">>
contentName == <<"c", "o", "n", "t", "e", "n", "t">>
statusName == <<"s", "t", "a", "t", "u", "s">>

\* { _raw: true, content: text, status: response.status }
RawResult(text, status) ==
  JObj(<<Prop(rawName, JBool(TRUE)),
         Prop(contentName, JStr(text)),
         Prop(statusName, JNum(status))>>)

\* params || {}
OrEmptyObject(params) == IF Truthy(params) THEN params ELSE JObj(<<>>)

\* the own enumerable properties a destructuring pattern reads from a value
OwnProps(value) ==
  CASE value.t = "obj" -> value.v
    [] value.t = "arr" ->
         [i \in 1..Len(value.v) |-> Prop(NatToStr(i - 1), value.v[i])]
    [] value.t = "str" ->
         [i \in 1..Len(value.v) |-> Prop(NatToStr(i - 1), JStr(<<value.v[i]>>))]
    [] OTHER -> <<>>

\* const { returnRaw: returnRawParam, ...apiParams } = params || {}
ReturnRawParam(params) ==
  LET props == OwnProps(OrEmptyObject(params))
  IN IF HasOwn(props, returnRawName) THEN GetOwn(props, returnRawName) ELSE JUndefined

\* ApiParams with returnRaw left among the rest
ApiParamsWithReturnRaw(params) == OwnProps(OrEmptyObject(params))

ApiParams(params) == DeleteOwn(OwnProps(OrEmptyObject(params)), returnRawName)

\* the length of the response body excerpt in a parse failure message
ExcerptLength == 500

----------------------------------------------------------------------------
(* createTrpcProcedure *)

createTrpcProcedure(namespace, name, method, description, paramSchema) ==
  [type |-> "trpc",
   method |-> method,
   path |-> <<"/">> \o namespace \o <<".">> \o name,
   description |->
     description \o (IF paramSchema # <<>> THEN <<" Parameters: ">> \o paramSchema
                     ELSE <<>>),
   namespace |-> namespace,
   name |-> name]

\* shouldReturnRaw = returnRaw || returnRawParam; the dispatcher passes no
\* second argument, so returnRaw is its default, false
TrpcShouldReturnRaw(proc, params, returnRaw) ==
  returnRaw \/ Truthy(ReturnRawParam(params))

TrpcUrl(proc, params) ==
  IF proc.method = GET
  THEN baseUrl \o <<"/", "t", "r", "p", "c", "/">> \o proc.namespace \o <<".">>
       \o proc.name \o <<"?", "i", "n", "p", "u", "t", "=">>
       \o encodeURIComponent(JSONstringify(JObj(ApiParams(params))))
  ELSE baseUrl \o <<"/", "t", "r", "p", "c", "/">> \o proc.namespace \o <<".">>
       \o proc.name

\* the fetch call of the GET branch and of the else branch
TrpcFetch(proc, params) ==
  IF proc.method = GET
  THEN Fetch(TrpcUrl(proc, params), proc.method, headers, NoBody)
  ELSE Fetch(TrpcUrl(proc, params), proc.method, headers,
             Body(JSONstringify(JObj(ApiParams(params)))))

\* TrpcParseFailure with the whole body in the message
TrpcParseFailureWholeBody(proc, url, status, text) ==
  Error(<<"Error">>,
        <<"Failed to parse JSON response. Procedure: ">> \o proc.namespace \o <<".">>
        \o proc.name \o <<", URL: ">> \o url \o <<", Status: ">> \o status
        \o <<", Error: ">> \o SyntaxErrorMessage
        \o <<", Response body (first 500 chars): ">> \o text)

TrpcParseFailure(proc, url, status, text) ==
  Error(<<"Error">>,
        <<"Failed to parse JSON response. Procedure: ">> \o proc.namespace \o <<".">>
        \o proc.name \o <<", URL: ">> \o url \o <<", Status: ">> \o status
        \o <<", Error: ">> \o SyntaxErrorMessage
        \o <<", Response body (first 500 chars): ">>
        \o Substring0(text, ExcerptLength))

\* the outer catch: throw new Error("tRPC execute error ...")
TrpcRethrow(proc, cause) ==
  Error(<<"Error">>,
        <<"tRPC execute error for procedure ", "\"">> \o proc.namespace \o <<".">>
        \o proc.name \o <<"\"", ":", " ">> \o cause.message)

\* TrpcComplete with a response whose status is not 200 made a failure
TrpcCompleteCheckingStatus(proc, url, shouldReturnRaw, status, text) ==
  IF status # <<"2", "0", "0">>
  THEN Thrown(TrpcRethrow(proc, Error(<<"Error">>, <<"HTTP ">> \o status)))
  ELSE IF shouldReturnRaw THEN Returned(RawResult(text, status))
  ELSE IF JSONparse(text).ok THEN Returned(JSONparse(text).v)
  ELSE Thrown(TrpcRethrow(proc, TrpcParseFailure(proc, url, status, text)))

\* what execute does once the body text is read
TrpcComplete(proc, url, shouldReturnRaw, status, text) ==
  IF shouldReturnRaw THEN Returned(RawResult(text, status))
  ELSE IF JSONparse(text).ok THEN Returned(JSONparse(text).v)
  ELSE Thrown(TrpcRethrow(proc, TrpcParseFailure(proc, url, status, text)))

----------------------------------------------------------------------------
(* createRestProcedure *)

\* createRestProcedure with every procedure made a GET
createRestProcedureByGet(path, method, description, paramSchema, raw) ==
  [type |-> "rest",
   method |-> <<"G", "E", "T">>,
   path |-> path,
   description |->
     description \o (IF paramSchema # <<>> THEN <<" Parameters: ">> \o paramSchema
                     ELSE <<>>),
   raw |-> (raw = TRUE)]

createRestProcedure(path, method, description, paramSchema, raw) ==
  [type |-> "rest",
   method |-> method,
   path |-> path,
   description |->
     description \o (IF paramSchema # <<>> THEN <<" Parameters: ">> \o paramSchema
                     ELSE <<>>),
   raw |-> (raw = TRUE)]

\* shouldReturnRaw = isRawEndpoint || returnRawParam
\* RestShouldReturnRaw without the returnRaw member of the params
RestShouldReturnRawByFlag(proc, params) == proc.raw

RestShouldReturnRaw(proc, params) ==
  proc.raw \/ Truthy(ReturnRawParam(params))

RECURSIVE ReplacePlaceholders(_, _)
\* for (const [key, value] of Object.entries(apiParams))
\*   finalPath = finalPath.replace("[" + key + "]", String(value))
ReplacePlaceholders(finalPath, entries) ==
  IF entries = <<>> THEN finalPath
  ELSE ReplacePlaceholders(
         Replace(finalPath, <<"[">> \o Head(entries).k \o <<"]">>,
                 ToStr(Head(entries).v)),
         Tail(entries))

FinalPath(proc, params) == ReplacePlaceholders(proc.path, ApiParams(params))

RECURSIVE DeleteAll(_, _)
\* for (const p of pathParams) delete queryParams[p]
DeleteAll(props, names) ==
  IF names = <<>> THEN props
  ELSE DeleteAll(DeleteOwn(props, Head(names)), Tail(names))

\* RemainingParams with the path parameters left in
RemainingParamsWithPathParams(proc, params) == ApiParams(params)

\* queryParams and bodyParams: apiParams without the path parameters
RemainingParams(proc, params) ==
  DeleteAll(ApiParams(params), MatchPlaceholders(proc.path))

QueryString(proc, params) ==
  IF Len(RemainingParams(proc, params)) > 0
  THEN <<"?">> \o URLSearchParamsToString(RemainingParams(proc, params))
  ELSE <<>>

\* RestUrl with the query string appended whatever the method
RestUrlWithQuery(proc, params) ==
  baseUrl \o FinalPath(proc, params) \o QueryString(proc, params)

RestUrl(proc, params) ==
  IF proc.method = GET
  THEN baseUrl \o FinalPath(proc, params) \o QueryString(proc, params)
  ELSE baseUrl \o FinalPath(proc, params)

\* RestFetch with the headers left out of a request that has a body
RestFetchWithoutHeaders(proc, params) ==
  IF proc.method = GET
  THEN Fetch(RestUrl(proc, params), proc.method, headers, NoBody)
  ELSE Fetch(RestUrl(proc, params), proc.method, <<>>,
             Body(JSONstringify(JObj(RemainingParams(proc, params)))))

RestFetch(proc, params) ==
  IF proc.method = GET
  THEN Fetch(RestUrl(proc, params), proc.method, headers, NoBody)
  ELSE Fetch(RestUrl(proc, params), proc.method, headers,
             Body(JSONstringify(JObj(RemainingParams(proc, params)))))

RestParseFailure(proc, url, status, text) ==
  Error(<<"Error">>,
        <<"Failed to parse JSON response. Endpoint: ">> \o proc.path
        \o <<", URL: ">> \o url \o <<", Status: ">> \o status
        \o <<", Error: ">> \o SyntaxErrorMessage
        \o <<", Response body (first 500 chars): ">>
        \o Substring0(text, ExcerptLength))

\* RestRethrow without the catch: the cause leaves execute as it is
RestRethrowCause(proc, cause) == cause

\* the outer catch: throw new Error("REST execute error ...")
RestRethrow(proc, cause) ==
  Error(<<"Error">>,
        <<"REST execute error for endpoint ", "\"">> \o proc.path
        \o <<"\"", ":", " ">> \o cause.message)

RestComplete(proc, url, shouldReturnRaw, status, text) ==
  IF shouldReturnRaw THEN Returned(RawResult(text, status))
  ELSE IF JSONparse(text).ok THEN Returned(JSONparse(text).v)
  ELSE Thrown(RestRethrow(proc, RestParseFailure(proc, url, status, text)))

----------------------------------------------------------------------------
(* A procedure's execute, by its type *)

ProcFetch(proc, params) ==
  IF proc.type = "trpc" THEN TrpcFetch(proc, params) ELSE RestFetch(proc, params)

ProcShouldReturnRaw(proc, params) ==
  IF proc.type = "trpc" THEN TrpcShouldReturnRaw(proc, params, FALSE)
  ELSE RestShouldReturnRaw(proc, params)

ProcComplete(proc, url, shouldReturnRaw, status, text) ==
  IF proc.type = "trpc" THEN TrpcComplete(proc, url, shouldReturnRaw, status, text)
  ELSE RestComplete(proc, url, shouldReturnRaw, status, text)

\* a rejected fetch or body read, caught by the procedure's outer catch
ProcRethrow(proc, cause) ==
  IF proc.type = "trpc" THEN TrpcRethrow(proc, cause) ELSE RestRethrow(proc, cause)

----------------------------------------------------------------------------
(* The procedure map *)

\* a run of assignments obj[key] = value, in order, to the object props: a
\* key keeps the place of its first assignment and the value of its last
AssignAll(props, assigns) ==
  LET all == props \o assigns
      n == Len(all)
      firsts == SelectSeq([i \in 1..n |-> i],
                          LAMBDA i : \A j \in 1..(i - 1) : all[j].k # all[i].k)
      last(k) == CHOOSE j \in 1..n :
                   all[j].k = k /\ \A m \in (j + 1)..n : all[m].k # k
  IN [x \in 1..Len(firsts) |-> Prop(all[firsts[x]].k, all[last(all[firsts[x]].k)].v)]

\* the assignments of the inner loop over one namespace's endpoints
\* RegisterTrpcEndpoints with the name alone as the key
RegisterTrpcEndpointsByName(namespace, endpoints) ==
  [i \in 1..Len(endpoints) |->
     Prop(endpoints[i].name,
          createTrpcProcedure(namespace, endpoints[i].name, endpoints[i].method,
                              endpoints[i].description, endpoints[i].params))]

RegisterTrpcEndpoints(namespace, endpoints) ==
  [i \in 1..Len(endpoints) |->
     Prop(namespace \o <<".">> \o endpoints[i].name,
          createTrpcProcedure(namespace, endpoints[i].name, endpoints[i].method,
                              endpoints[i].description, endpoints[i].params))]

\* the assignments of the loop over Object.entries(trpcEndpoints)
RegisterTrpc(groups) ==
  Concat([g \in 1..Len(groups) |->
            RegisterTrpcEndpoints(groups[g].group, groups[g].endpoints)])

\* endpoint.name.replace(/^(GET|POST|PUT|DELETE) /, '')
PathWithoutMethod(name) ==
  IF \E m \in HttpMethod : StartsWith(name, m \o <<" ">>)
  THEN Drop(name, Len(CHOOSE m \in HttpMethod : StartsWith(name, m \o <<" ">>)) + 2)
  ELSE name

\* PathWithoutApiPrefix with the prefix left in place
PathWithApiPrefix(path) == path

\* pathWithoutMethod.replace(/^\/api/, '')
PathWithoutApiPrefix(path) ==
  IF StartsWith(path, <<"/", "a", "p", "i">>) THEN Drop(path, 5) ELSE path

\* RegisterRestEndpoints with the stripped path as the key
RegisterRestEndpointsByPath(endpoints) ==
  [i \in 1..Len(endpoints) |->
     Prop(PathWithoutApiPrefix(PathWithoutMethod(endpoints[i].name)),
          createRestProcedure(
            PathWithoutApiPrefix(PathWithoutMethod(endpoints[i].name)),
            endpoints[i].method, endpoints[i].description, endpoints[i].params,
            endpoints[i].raw))]

\* the assignments of the inner loop over one category's endpoints
RegisterRestEndpoints(endpoints) ==
  [i \in 1..Len(endpoints) |->
     Prop(endpoints[i].name,
          createRestProcedure(
            PathWithoutApiPrefix(PathWithoutMethod(endpoints[i].name)),
            endpoints[i].method, endpoints[i].description, endpoints[i].params,
            endpoints[i].raw))]

\* the assignments of the loop over Object.entries(restEndpoints)
RegisterRest(groups) ==
  Concat([g \in 1..Len(groups) |-> RegisterRestEndpoints(groups[g].endpoints)])

\* const procedures = {} followed by the two registration loops
BuildProcedures(trpc, rest) ==
  AssignAll(<<>>, RegisterTrpc(trpc) \o RegisterRest(rest))

\* names every object inherits from Object.prototype
ObjectPrototypeKeys ==
  {<<"c", "o", "n", "s", "t", "r", "u", "c", "t", "o", "r">>,
   <<"t", "o", "S", "t", "r", "i", "n", "g">>,
   <<"v", "a", "l", "u", "e", "O", "f">>,
   <<"h", "a", "s", "O", "w", "n", "P", "r", "o", "p", "e", "r", "t", "y">>,
   <<"_", "_", "p", "r", "o", "t", "o", "_", "_">>,
   <<"i", "s", "P", "r", "o", "t", "o", "t", "y", "p", "e", "O", "f">>,
   <<"p", "r", "o", "p", "e", "r", "t", "y", "I", "s", "E", "n", "u", "m",
     "e", "r", "a", "b", "l", "e">>,
   <<"t", "o", "L", "o", "c", "a", "l", "e", "S", "t", "r", "i", "n", "g">>,
   <<"_", "_", "d", "e", "f", "i", "n", "e", "G", "e", "t", "t", "e", "r",
     "_", "_">>,
   <<"_", "_", "d", "e", "f", "i", "n", "e", "S", "e", "t", "t", "e", "r",
     "_", "_">>,
   <<"_", "_", "l", "o", "o", "k", "u", "p", "G", "e", "t", "t", "e", "r",
     "_", "_">>,
   <<"_", "_", "l", "o", "o", "k", "u", "p", "S", "e", "t", "t", "e", "r",
     "_", "_">>}

\* procedures[key]: an own property, else one inherited from Object.prototype
\* (a function or an object, neither with an execute member), else undefined
Lookup(procs, key) ==
  IF HasOwn(procs, key) THEN [found |-> "own", proc |-> GetOwn(procs, key)]
  ELSE IF key \in ObjectPrototypeKeys THEN [found |-> "inherited", proc |-> [type |-> "none"]]
  ELSE [found |-> "undefined", proc |-> [type |-> "none"]]

----------------------------------------------------------------------------
(* The description generator *)

descriptionIntro ==
  <<"Use this tool to control Kilo Cloud Agents and Webhooks.", "\n",
    "All procedures return JSON responses.", "\n",
    "You can use the params argument to pass parameters to the procedure as a JSON string.", "\n",
    "Do NOT use optional parameters unless you have a specific reason/value to provide.", "\n",
    "\n",
    "## CloudAgent", "\n",
    "- Cloud backend via app.kilo.ai", "\n",
    "- cloudAgentSessionId \"agent_UUID\" = cloud_agent_session_id in cliSessions", "\n",
    "- kiloSessionId \"UUID\" = session_id in cliSessions", "\n",
    "\n",
    "## CloudAgentNext", "\n",
    "- CLI ingest via ingest.kilosessions.ai", "\n",
    "- sessionId \"agent_UUID\" = cloud_agent_session_id in cliSessionsV2", "\n",
    "- kiloSessionId \"ses_...\" = session_id in cliSessionsV2", "\n",
    "\n",
    "**Note:** cliSessions and cliSessionsV2 use snake_case for params, while other procedures use camelCase.", "\n",
    "\n">>

\* key.split('.')[0]
NamespaceOf(key) ==
  IF Contains(key, <<".">>) THEN SubSeq(key, 1, IndexOf(key, <<".">>) - 1) ELSE key

\* trpcByNamespace after the loop over the map: for each namespace, in the
\* order of its first key, the lines "- <key>: <description>" of its keys.
\* No namespace of the tables is a name inherited from Object.prototype.
TrpcByNamespace(procs) ==
  LET trpc == SelectSeq(procs, LAMBDA p : p.v.type = "trpc")
      namespaces == [i \in 1..Len(trpc) |-> NamespaceOf(trpc[i].k)]
      firsts == SelectSeq([i \in 1..Len(trpc) |-> i],
                          LAMBDA i : \A j \in 1..(i - 1) :
                                       namespaces[j] # namespaces[i])
      members(namespace) ==
        SelectSeq([i \in 1..Len(trpc) |-> i], LAMBDA i : namespaces[i] = namespace)
      lines(of) ==
        [m \in 1..Len(of) |->
           <<"-", " ">> \o trpc[of[m]].k \o <<":", " ">> \o trpc[of[m]].v.description]
  IN [n \in 1..Len(firsts) |->
        Prop(namespaces[firsts[n]], lines(members(namespaces[firsts[n]])))]

\* restProcedures after the loop over the map
RestProcedures(procs) ==
  LET rest == SelectSeq(procs, LAMBDA p : p.v.type = "rest")
  IN [m \in 1..Len(rest) |->
        <<"-", " ">> \o rest[m].k \o <<":", " ">> \o rest[m].v.description]

generateDescription(procs) ==
  LET trpcByNamespace == TrpcByNamespace(procs)
      restProcedures == RestProcedures(procs)
  IN descriptionIntro
     \o <<"## Available tRPC procedures (use these first):", "\n">>
     \o Concat([n \in 1..Len(trpcByNamespace) |->
                  Join(trpcByNamespace[n].v, <<"\n">>) \o <<"\n">>])
     \o (IF Len(restProcedures) > 0
         THEN <<"\n", "## Available REST endpoints (include /api/profile/* in profile info queries):", "\n">>
              \o Join(restProcedures, <<"\n">>)
         ELSE <<>>)

----------------------------------------------------------------------------
(* The dispatcher: tool.execute *)

NotFound(procedure) ==
  Error(<<"Error">>, <<"Procedure ">> \o procedure \o <<" not found.">>)

errorName == <<"e", "r", "r", "o", "r">>
messageName == <<"m", "e", "s", "s", "a", "g", "e">>
stackName == <<"s", "t", "a", "c", "k">>

\* JSON.stringify({ error: true, message: error.message, stack: error.stack }, null, 2)
ErrorString(error) ==
  JSONstringifyPretty(
    JObj(<<Prop(errorName, JBool(TRUE)),
           Prop(messageName, JStr(error.message)),
           Prop(stackName, JStr(Stack(error)))>>))

\* if (result && result._raw) return "Status: ...\n\n..."
\* return JSON.stringify(result, null, 2)
Render(result) ==
  IF Truthy(result) /\ Truthy(Member(result, rawName))
  THEN <<"S", "t", "a", "t", "u", "s", ":", " ">> \o ToStr(Member(result, statusName))
       \o <<"\n", "\n">> \o ToStr(Member(result, contentName))
  ELSE JSONstringifyPretty(result)

NoParams == [given |-> FALSE, text |-> <<>>]
Given(text) == [given |-> TRUE, text |-> text]

\* args.params as a condition: a string that is present and not empty
ParamsTruthy(params) == params.given /\ params.text # <<>>

\* ParsedParams with a parse failure swallowed
ParsedParamsLenient(params) ==
  IF ParamsTruthy(params) /\ JSONparse(params.text).ok THEN JSONparse(params.text)
  ELSE [ok |-> TRUE, v |-> JObj(<<>>)]

\* args.params ? JSON.parse(args.params) : {}
ParsedParams(params) ==
  IF ParamsTruthy(params) THEN JSONparse(params.text) ELSE [ok |-> TRUE, v |-> JObj(<<>>)]

NoResponse == [state |-> "none", status |-> <<>>, text |-> <<>>]

\* no invocation in progress
Idle ==
  [pc |-> "idle", procedure |-> <<>>, params |-> NoParams,
   proc |-> [type |-> "none"], url |-> <<>>, shouldReturnRaw |-> FALSE,
   requests |-> <<>>, response |-> NoResponse, completion |-> Pending,
   result |-> <<>>]

\* return <string>
Return(call, string) == [call EXCEPT !.pc = "done", !.result = string]

\* Caught without the catch: the error leaves execute
CaughtUnhandled(call, error) == [call EXCEPT !.pc = "raised"]

\* catch (error) { return JSON.stringify({ error: true, ... }) }
Caught(call, error) == Return(call, ErrorString(error))

\* the completion of procedure.execute, seen by the dispatcher's try block
Settle(call, completion) ==
  IF completion.kind = "returned"
  THEN Return([call EXCEPT !.completion = completion], Render(completion.value))
  ELSE Caught([call EXCEPT !.completion = completion], completion.error)

\* the call of fetch: the request leaves and the invocation suspends
Suspend(call, proc, parsedParams) ==
  [call EXCEPT !.pc = "fetch",
               !.proc = proc,
               !.url = ProcFetch(proc, parsedParams).url,
               !.shouldReturnRaw = ProcShouldReturnRaw(proc, parsedParams),
               !.requests = Append(@, ProcFetch(proc, parsedParams))]

\* execute from its entry to its first suspension or to its return
ExecuteStart(procedure, params) ==
  LET call == [Idle EXCEPT !.procedure = procedure, !.params = params]
      found == Lookup(procedures, procedure)
      parsed == ParsedParams(params)
  IN IF found.found = "undefined" THEN Caught(call, NotFound(procedure))
     ELSE IF ~parsed.ok
       THEN Caught(call, Error(<<"SyntaxError">>, SyntaxErrorMessage))
     ELSE IF found.found = "inherited"
       THEN Caught(call, Error(<<"TypeError">>, NotAFunctionMessage))
     ELSE Suspend(call, found.proc, parsed.v)

\* await fetch(...) resolves with a response
OnFetchResolved(call, status) ==
  [call EXCEPT !.pc = "text",
               !.response = [state |-> "headers", status |-> status, text |-> <<>>]]

\* OnFetchRejected with the request sent again
OnFetchRejectedRetrying(call) ==
  [call EXCEPT !.requests = Append(@, call.requests[1])]

\* await fetch(...) rejects
OnFetchRejected(call) ==
  Settle([call EXCEPT !.response.state = "rejected"],
         Thrown(ProcRethrow(call.proc, Error(<<"TypeError">>, FetchFailedMessage))))

\* await response.text() resolves
OnTextResolved(call, text) ==
  Settle([call EXCEPT !.response.state = "completed", !.response.text = text],
         ProcComplete(call.proc, call.url, call.shouldReturnRaw,
                      call.response.status, text))

\* await response.text() rejects
OnTextRejected(call) ==
  Settle([call EXCEPT !.response.state = "aborted"],
         Thrown(ProcRethrow(call.proc, Error(<<"TypeError">>, BodyReadFailedMessage))))

----------------------------------------------------------------------------
(* Inputs *)

\* the number of invocation slots
MaxCalls == 2

Calls == 1..MaxCalls

\* the invocations of a host that awaits each call before the next
Sequential == {1}

\* process.env.KILO_API_KEY: unset, or a token
ApiKeys == {JUndefined, JStr(<<"s", "k", "-", "1">>)}

\* the keys a tRPC table declares: "<namespace>.<name>"
DeclaredTrpcKeys(trpc) ==
  UNION {{trpc[g].group \o <<".">> \o trpc[g].endpoints[e].name :
            e \in 1..Len(trpc[g].endpoints)} : g \in 1..Len(trpc)}

\* the keys a REST table declares: "<METHOD> <path>"
DeclaredRestKeys(rest) ==
  UNION {{rest[g].endpoints[e].name : e \in 1..Len(rest[g].endpoints)} :
           g \in 1..Len(rest)}

DeclaredKeys(trpc, rest) == DeclaredTrpcKeys(trpc) \cup DeclaredRestKeys(rest)

\* keys no table declares; three are names of Object.prototype
UndeclaredKeys ==
  {<<"d", "o", "e", "s", "N", "o", "t", "E", "x", "i", "s", "t", ".", "o", "p">>,
   <<"c", "o", "n", "s", "t", "r", "u", "c", "t", "o", "r">>,
   <<"t", "o", "S", "t", "r", "i", "n", "g">>,
   <<"_", "_", "p", "r", "o", "t", "o", "_", "_">>,
   <<"G", "E", "T", " ", "/", "a", "p", "i", "/", "o", "r", "g", "a", "n", "i", "z",
     "a", "t", "i", "o", "n", "s", "/", "[", "i", "d", "]">>}

ProcedureInputs == DeclaredKeys(trpcEndpoints, restEndpoints) \cup UndeclaredKeys

NotJsonParams == <<"{", "n", "o", "t", " ", "j", "s", "o", "n">>
EmptyObjectParams == <<"{", "}">>
NullParams == <<"n", "u", "l", "l">>
ReturnRawParams ==
  <<"{", "\"", "r", "e", "t", "u", "r", "n", "R", "a", "w", "\"", ":", "t", "r",
    "u", "e", "}">>
SlugParams ==
  <<"{", "\"", "s", "l", "u", "g", "\"", ":", "\"", "g", "p", "t", "\"", ",", "\"",
    "v", "e", "r", "b", "o", "s", "e", "\"", ":", "t", "r", "u", "e", "}">>
IdParams ==
  <<"{", "\"", "i", "d", "\"", ":", "\"", "4", "2", "\"", ",", "\"", "v", "e", "r",
    "b", "o", "s", "e", "\"", ":", "t", "r", "u", "e", "}">>
IdRawParams ==
  <<"{", "\"", "i", "d", "\"", ":", "\"", "4", "2", "\"", ",", "\"", "r", "e", "t",
    "u", "r", "n", "R", "a", "w", "\"", ":", "t", "r", "u", "e", "}">>
\* a path parameter whose value is a replacement pattern of String.replace
IdDollarParams == <<"{", "\"", "i", "d", "\"", ":", "\"", "$", "&", "\"", "}">>
\* a path parameter whose value has the form of a placeholder of another key
IdBracketParams ==
  <<"{", "\"", "i", "d", "\"", ":", "\"", "[", "v", "e", "r", "b", "o", "s", "e",
    "]", "\"", ",", "\"", "v", "e", "r", "b", "o", "s", "e", "\"", ":", "t", "r",
    "u", "e", "}">>

ParamsInputs ==
  {NoParams, Given(<<>>), Given(NotJsonParams), Given(ReturnRawParams),
   Given(SlugParams)}

OK200 == <<"2", "0", "0">>
NotFound404 == <<"4", "0", "4">>
ServerError500 == <<"5", "0", "0">>

Statuses == {OK200, ServerError500}

OkBody == <<"{", "\"", "o", "k", "\"", ":", "t", "r", "u", "e", "}">>
YamlBody == <<"s", "k", "i", "l", "l", "s", ":", " ", "[", "]">>
RawMemberBody ==
  <<"{", "\"", "_", "r", "a", "w", "\"", ":", "t", "r", "u", "e", ",", "\"", "o",
    "k", "\"", ":", "1", "}">>
NullBody == <<"n", "u", "l", "l">>
FalseBody == <<"f", "a", "l", "s", "e">>
ZeroBody == <<"0">>
EmptyStringBody == <<"\"", "\"">>
\* a body one character longer than the excerpt of a parse failure message
LongBody == [i \in 1..(ExcerptLength + 1) |-> "x"]

BodyInputs == {OkBody, YamlBody}

----------------------------------------------------------------------------
(* Descriptors of every shape the EndpointConfig type admits, for the two  *)
(* factories and the registration loops: both placeholder notations, every *)
(* method, and the raw flag on descriptors of either kind.                 *)

FactoryRestEndpoints ==
  <<
    [group |-> <<"r", "e", "p", "o", "s", "i", "t", "o", "r", "i", "e", "s">>,
     endpoints |-> <<
       [name |-> <<"G", "E", "T", " ", "/", "a", "p", "i", "/", "r", "e", "p", "o", "s", "i", "t", "o", "r", "i", "e", "s", "/", "{", "i", "d", "}">>,
        method |-> <<"G", "E", "T">>, raw |-> FALSE,
        description |-> <<"Get repository.">>,
        params |-> <<"id">>],
       [name |-> <<"P", "O", "S", "T", " ", "/", "a", "p", "i", "/", "r", "e", "p", "o", "s", "i", "t", "o", "r", "i", "e", "s", "/", "{", "i", "d", "}">>,
        method |-> <<"P", "O", "S", "T">>, raw |-> FALSE,
        description |-> <<"Update repository.">>,
        params |-> <<"id">>],
       [name |-> <<"G", "E", "T", " ", "/", "a", "p", "i", "/", "r", "e", "p", "o", "s", "i", "t", "o", "r", "i", "e", "s", "/", "[", "i", "d", "]">>,
        method |-> <<"G", "E", "T">>, raw |-> FALSE,
        description |-> <<"Get repository.">>,
        params |-> <<"id">>],
       [name |-> <<"P", "O", "S", "T", " ", "/", "a", "p", "i", "/", "r", "e", "p", "o", "s", "i", "t", "o", "r", "i", "e", "s", "/", "[", "i", "d", "]">>,
        method |-> <<"P", "O", "S", "T">>, raw |-> FALSE,
        description |-> <<"Update repository.">>,
        params |-> <<"id">>],
       [name |-> <<"P", "U", "T", " ", "/", "a", "p", "i", "/", "r", "e", "p", "o", "s", "i", "t", "o", "r", "i", "e", "s", "/", "[", "i", "d", "]">>,
        method |-> <<"P", "U", "T">>, raw |-> FALSE,
        description |-> <<"Replace repository.">>,
        params |-> <<"id">>],
       [name |-> <<"D", "E", "L", "E", "T", "E", " ", "/", "a", "p", "i", "/", "r", "e", "p", "o", "s", "i", "t", "o", "r", "i", "e", "s", "/", "[", "i", "d", "]">>,
        method |-> <<"D", "E", "L", "E", "T", "E">>, raw |-> FALSE,
        description |-> <<"Delete repository.">>,
        params |-> <<"id">>]
     >>],
    [group |-> <<"e", "x", "p", "o", "r", "t">>,
     endpoints |-> <<
       [name |-> <<"G", "E", "T", " ", "/", "a", "p", "i", "/", "e", "x", "p", "o", "r", "t">>,
        method |-> <<"G", "E", "T">>, raw |-> TRUE,
        description |-> <<"Export (returns YAML).">>,
        params |-> <<>>],
       [name |-> <<"P", "O", "S", "T", " ", "/", "a", "p", "i", "/", "e", "x", "p", "o", "r", "t">>,
        method |-> <<"P", "O", "S", "T">>, raw |-> TRUE,
        description |-> <<"Start export (returns YAML).">>,
        params |-> <<>>]
     >>]
  >>

FactoryTrpcEndpoints ==
  <<
    [group |-> <<"e", "x", "p", "o", "r", "t">>,
     endpoints |-> <<
       [name |-> <<"y", "a", "m", "l">>,
        method |-> <<"G", "E", "T">>, raw |-> TRUE,
        description |-> <<"Export (returns YAML).">>,
        params |-> <<>>],
       [name |-> <<"d", "u", "m", "p">>,
        method |-> <<"P", "O", "S", "T">>, raw |-> TRUE,
        description |-> <<"Start export (returns YAML).">>,
        params |-> <<>>]
     >>],
    [group |-> <<"r", "e", "p", "o", "s", "i", "t", "o", "r", "i", "e", "s">>,
     endpoints |-> <<
       [name |-> <<"l", "i", "s", "t">>,
        method |-> <<"G", "E", "T">>, raw |-> FALSE,
        description |-> <<"List repositories.">>,
        params |-> <<>>],
       [name |-> <<"c", "r", "e", "a", "t", "e">>,
        method |-> <<"P", "O", "S", "T">>, raw |-> FALSE,
        description |-> <<"Create repository.">>,
        params |-> <<"name">>]
     >>]
  >>

FactoryProcedureInputs ==
  DeclaredKeys(FactoryTrpcEndpoints, FactoryRestEndpoints) \cup UndeclaredKeys

FactoryParamsInputs ==
  {NoParams, Given(<<>>), Given(NotJsonParams), Given(EmptyObjectParams),
   Given(NullParams), Given(ReturnRawParams), Given(IdParams), Given(IdRawParams),
   Given(IdDollarParams), Given(IdBracketParams)}

FactoryStatuses == {OK200, NotFound404, ServerError500}

FactoryBodyInputs ==
  {OkBody, YamlBody, <<>>, RawMemberBody, NullBody, FalseBody, ZeroBody,
   EmptyStringBody, LongBody}

----------------------------------------------------------------------------
(* The speak tool (command/know-kilo.md, tool/speak.ts) *)

(***************************************************************************)
(* A Buffer is the sequence of its bytes, each in 0..255; the byte at the  *)
(* code's offset k is element k + 1.  args.gain is a fraction n/d with     *)
(* d > 0, or not given.  An invocation of execute is the record            *)
(*   pc          where the invocation stands: "idle", at the await of the  *)
(*               fetch ("fetch"), at the awaits of the body and of the     *)
(*               speaker module ("arrayBuffer"), in the scan for the data  *)
(*               chunk ("scan"), playing ("playing"), or returned from     *)
(*               the non-OK branch or the catch block ("done")             *)
(*   reads       the byte ranges [from, to) read inside the scan loop      *)
(*   written     the buffers written to the speaker, in order              *)
(*   events      the speaker's events delivered so far                     *)
(*   result      what the returned promise resolved with: none or one      *)
(***************************************************************************)
SpeakIdle ==
  [pc |-> "idle", text |-> <<>>, gain |-> [given |-> FALSE, n |-> 1, d |-> 1],
   ttsUrl |-> <<>>, request |-> <<>>, wavData |-> <<>>,
   numChannels |-> 0, sampleRate |-> 0, bitsPerSample |-> 0,
   dataOffset |-> 0, found |-> FALSE, reads |-> {},
   speaker |-> <<>>, written |-> <<>>, events |-> <<>>, result |-> <<>>]

\* buf.readUInt16LE(offset) and buf.readUInt32LE(offset): the bytes at
\* offset .. offset + width - 1, least significant first
readUIntLE(buf, offset, width) ==
  LET byte(k) == IF k < width THEN buf[offset + k + 1] ELSE 0
  IN byte(0) + 256 * byte(1) + 65536 * byte(2) + 16777216 * byte(3)

\* what a Buffer read outside the buffer throws
OutOfRangeMessage == <<"The value of \"offset\" is out of range.">>

\* the gain stage: no gain, a gain of 1.0 or a depth other than 16 bits
\* leaves the payload as it is; otherwise a new buffer of the payload's
\* length is filled two bytes at a time, and the read of a sample that does
\* not lie within the payload throws
ProcessedAudio(audioData, gain, bitsPerSample) ==
  LET length == Len(audioData)
      readInt16LE(i) ==
        LET u == readUIntLE(audioData, i, 2)
        IN IF u >= 32768 THEN u - 65536 ELSE u
      round(sample) == (2 * sample * gain.n + gain.d) \div (2 * gain.d)
      scaled(sample) ==
        LET r == round(sample)
            low == IF r < 32767 THEN r ELSE 32767
        IN IF low > -32768 THEN low ELSE -32768
      int16LE(value) ==
        LET u == IF value < 0 THEN value + 65536 ELSE value
        IN <<u % 256, u \div 256>>
  IN IF gain.given /\ gain.n # gain.d /\ bitsPerSample = 16
     THEN IF \E i \in 0..(length - 1) : i % 2 = 0 /\ i + 2 > length
          THEN [thrown |-> TRUE, audio |-> <<>>]
          ELSE [thrown |-> FALSE,
                audio |-> [k \in 1..length |->
                             int16LE(scaled(readInt16LE(((k - 1) \div 2) * 2)))
                               [((k - 1) % 2) + 1]]]
     ELSE [thrown |-> FALSE, audio |-> audioData]

\* the catch block: the invocation returns a "TTS Error" that carries the
\* message of what was thrown
SpeakCatch(s, message) ==
  [s EXCEPT !.pc = "done",
            !.result = <<[title |-> "TTS Error",
                          output |-> <<"TTS error: ">> \o message
                                     \o <<". Is the TTS service running at ">>
                                     \o s.ttsUrl \o <<"?">>,
                          metadata |-> <<>>]>>]

----------------------------------------------------------------------------
(* The state machine *)

\* the module after its top-level statements have run
Init ==
  /\ env \in [KILO_API_KEY : ApiKeys]
  /\ headers = MakeHeaders(env.KILO_API_KEY)
  /\ procedures = BuildProcedures(trpcEndpoints, restEndpoints)
  /\ tool = [description |-> generateDescription(procedures)]
  /\ calls = [i \in Calls |-> Idle]
  /\ speak = SpeakIdle

\* the same statements over the descriptors of every shape
InitFactory ==
  /\ env \in [KILO_API_KEY : ApiKeys]
  /\ headers = MakeHeaders(env.KILO_API_KEY)
  /\ procedures = BuildProcedures(FactoryTrpcEndpoints, FactoryRestEndpoints)
  /\ tool = [description |-> generateDescription(procedures)]
  /\ calls = [i \in Calls |-> Idle]
  /\ speak = SpeakIdle

\* Execute with a key the map does not have entered into the map
ExecuteRegistering(i, keys, strings) ==
  /\ calls[i].pc = "idle"
  /\ \E procedure \in keys, params \in strings :
       /\ calls' = [calls EXCEPT ![i] = ExecuteStart(procedure, params)]
       /\ procedures' = IF HasOwn(procedures, procedure) THEN procedures
                        ELSE Append(procedures, Prop(procedure, [type |-> "none"]))
  /\ UNCHANGED <<env, headers, tool, speak>>

\* the host invokes the tool
Execute(i, keys, strings) ==
  /\ calls[i].pc = "idle"
  /\ \E procedure \in keys, params \in strings :
       calls' = [calls EXCEPT ![i] = ExecuteStart(procedure, params)]
  /\ UNCHANGED <<env, headers, procedures, tool, speak>>

\* the response arrives: its status line and headers
FetchResolve(i, statuses) ==
  /\ calls[i].pc = "fetch"
  /\ \E status \in statuses :
       calls' = [calls EXCEPT ![i] = OnFetchResolved(calls[i], status)]
  /\ UNCHANGED <<env, headers, procedures, tool, speak>>

\* the request fails at the network level
FetchReject(i) ==
  /\ calls[i].pc = "fetch"
  /\ calls' = [calls EXCEPT ![i] = OnFetchRejected(calls[i])]
  /\ UNCHANGED <<env, headers, procedures, tool, speak>>

\* TextResolve with one buffer for the body: every invocation that reads
\* its response gets the text that arrives for invocation i
TextResolveShared(i, bodies) ==
  /\ calls[i].pc = "text"
  /\ \E text \in bodies :
       calls' = [j \in Calls |->
                   IF calls[j].pc = "text" THEN OnTextResolved(calls[j], text)
                   ELSE calls[j]]
  /\ UNCHANGED <<env, headers, procedures, tool, speak>>

\* the response body has been read in full
TextResolve(i, bodies) ==
  /\ calls[i].pc = "text"
  /\ \E text \in bodies :
       calls' = [calls EXCEPT ![i] = OnTextResolved(calls[i], text)]
  /\ UNCHANGED <<env, headers, procedures, tool, speak>>

\* reading the response body fails
TextReject(i) ==
  /\ calls[i].pc = "text"
  /\ calls' = [calls EXCEPT ![i] = OnTextRejected(calls[i])]
  /\ UNCHANGED <<env, headers, procedures, tool, speak>>

\* the host takes the returned string; the slot is free for the next call
Finish(i) ==
  /\ calls[i].pc = "done"
  /\ calls' = [calls EXCEPT ![i] = Idle]
  /\ UNCHANGED <<env, headers, procedures, tool, speak>>

Next ==
  \E i \in Sequential :
    \/ Execute(i, ProcedureInputs, ParamsInputs)
    \/ FetchResolve(i, Statuses)
    \/ FetchReject(i)
    \/ TextResolve(i, BodyInputs)
    \/ TextReject(i)
    \/ Finish(i)

Spec == Init /\ [][Next]_vars

NextFactory ==
  \E i \in Sequential :
    \/ Execute(i, FactoryProcedureInputs, FactoryParamsInputs)
    \/ FetchResolve(i, FactoryStatuses)
    \/ FetchReject(i)
    \/ TextResolve(i, FactoryBodyInputs)
    \/ TextReject(i)
    \/ Finish(i)

SpecFactory == InitFactory /\ [][NextFactory]_vars

\* the keys of the invocations that overlap: a remote procedure, a REST
\* procedure with a path parameter, a REST procedure flagged raw, and a key
\* no table declares
ConcurrentProcedureInputs ==
  {<<"r", "e", "p", "o", "s", "i", "t", "o", "r", "i", "e", "s", ".", "l", "i", "s", "t">>,
   <<"P", "O", "S", "T", " ", "/", "a", "p", "i", "/", "r", "e", "p", "o", "s", "i",
     "t", "o", "r", "i", "e", "s", "/", "[", "i", "d", "]">>,
   <<"G", "E", "T", " ", "/", "a", "p", "i", "/", "e", "x", "p", "o", "r", "t">>,
   <<"d", "o", "e", "s", "N", "o", "t", "E", "x", "i", "s", "t", ".", "o", "p">>}

\* a host that does not await a call before the next: the steps of the
\* invocations interleave at their awaits
NextConcurrent ==
  \E i \in Calls :
    \/ Execute(i, ConcurrentProcedureInputs,
               {NoParams, Given(NotJsonParams), Given(IdParams)})
    \/ FetchResolve(i, Statuses)
    \/ FetchReject(i)
    \/ TextResolve(i, BodyInputs)
    \/ TextReject(i)
    \/ Finish(i)

SpecConcurrent == InitFactory /\ [][NextConcurrent]_vars

----------------------------------------------------------------------------
(* The speak tool: one invocation of execute *)

\* the host invokes the tool: the form is built and the request is sent
SpeakExecute(texts, voices, gains, urls) ==
  /\ speak.pc = "idle"
  /\ \E text \in texts, voice \in voices, gain \in gains, TTS_URL \in urls :
       LET ttsUrl == IF Truthy(TTS_URL) THEN TTS_URL.v
                     ELSE <<"http://localhost:5003">>
           voice_url == IF Truthy(voice) THEN voice.v ELSE <<"azelma">>
       IN speak' = [SpeakIdle EXCEPT
                      !.pc = "fetch", !.text = text, !.gain = gain,
                      !.ttsUrl = ttsUrl,
                      !.request = <<[url |-> ttsUrl \o <<"/tts">>,
                                     method |-> POST,
                                     form |-> <<<<"text", text>>,
                                                <<"voice_url", voice_url>>>>]>>]
  /\ UNCHANGED <<env, headers, procedures, tool, calls>>

\* the response arrives: one that is not OK is returned as a "TTS Error",
\* an OK one has its body read
SpeakFetchResolve(responses) ==
  /\ speak.pc = "fetch"
  /\ \E response \in responses :
       speak' = IF ~response.ok
                THEN [speak EXCEPT
                        !.pc = "done",
                        !.result = <<[title |-> "TTS Error",
                                      output |-> <<"TTS request failed: ">>
                                                 \o response.status \o <<" ">>
                                                 \o response.statusText,
                                      metadata |-> <<>>]>>]
                ELSE [speak EXCEPT !.pc = "arrayBuffer"]
  /\ UNCHANGED <<env, headers, procedures, tool, calls>>

\* an awaited promise rejects (the fetch, the read of the body, the import
\* of the speaker module): the catch block returns
SpeakReject(messages) ==
  /\ speak.pc \in {"fetch", "arrayBuffer"}
  /\ \E message \in messages : speak' = SpeakCatch(speak, message)
  /\ UNCHANGED <<env, headers, procedures, tool, calls>>

\* the body and the speaker module are there: the format is read from the
\* fixed offsets of a standard header, and the scan starts after the RIFF
\* header
SpeakBufferResolve(buffers) ==
  /\ speak.pc = "arrayBuffer"
  /\ \E wavData \in buffers :
       speak' = IF Len(wavData) < 36
                THEN SpeakCatch(speak, OutOfRangeMessage)
                ELSE [speak EXCEPT
                        !.pc = "scan", !.wavData = wavData,
                        !.numChannels = readUIntLE(wavData, 22, 2),
                        !.sampleRate = readUIntLE(wavData, 24, 4),
                        !.bitsPerSample = readUIntLE(wavData, 34, 2),
                        !.dataOffset = 12]
  /\ UNCHANGED <<env, headers, procedures, tool, calls>>

\* SpeakScan moving the offset by the declared size alone, without the 8
\* bytes of the chunk header
SpeakScanByContent ==
  /\ speak.pc = "scan"
  /\ ~speak.found
  /\ speak.dataOffset < Len(speak.wavData) - 8
  /\ LET dataOffset == speak.dataOffset
         isData == [k \in 1..4 |-> speak.wavData[dataOffset + k] % 128]
                   = <<100, 97, 116, 97>>
     IN speak' = [speak EXCEPT
                    !.reads = @ \cup {[what |-> "chunkId", from |-> dataOffset,
                                       to |-> dataOffset + 4],
                                      [what |-> "chunkSize", from |-> dataOffset + 4,
                                       to |-> dataOffset + 8]},
                    !.found = isData,
                    !.dataOffset =
                      IF isData THEN dataOffset + 8
                      ELSE dataOffset + readUIntLE(speak.wavData, dataOffset + 4, 4)]
  /\ UNCHANGED <<env, headers, procedures, tool, calls>>

\* one iteration of the scan for the data chunk
SpeakScan ==
  /\ speak.pc = "scan"
  /\ ~speak.found
  /\ speak.dataOffset < Len(speak.wavData) - 8
  /\ LET wavData == speak.wavData
         dataOffset == speak.dataOffset
         end == IF dataOffset + 4 < Len(wavData) THEN dataOffset + 4
                ELSE Len(wavData)
         chunkId == [k \in 1..(end - dataOffset) |-> wavData[dataOffset + k] % 128]
         reads == {[what |-> "chunkId", from |-> dataOffset, to |-> end],
                   [what |-> "chunkSize", from |-> dataOffset + 4,
                    to |-> dataOffset + 8]}
     IN IF dataOffset + 8 > Len(wavData)
        THEN speak' = SpeakCatch([speak EXCEPT !.reads = @ \cup reads],
                                 OutOfRangeMessage)
        ELSE LET chunkSize == readUIntLE(wavData, dataOffset + 4, 4)
             IN speak' = [speak EXCEPT
                            !.reads = @ \cup reads,
                            !.found = (chunkId = <<100, 97, 116, 97>>),
                            !.dataOffset = IF chunkId = <<100, 97, 116, 97>>
                                           THEN dataOffset + 8
                                           ELSE dataOffset + 8 + chunkSize]
  /\ UNCHANGED <<env, headers, procedures, tool, calls>>

\* the scan is over: the rest of the buffer goes through the gain stage and
\* is written to a speaker opened with the format read from the header
SpeakPlay ==
  /\ speak.pc = "scan"
  /\ speak.found \/ ~(speak.dataOffset < Len(speak.wavData) - 8)
  /\ LET wavData == speak.wavData
         start == IF speak.dataOffset < Len(wavData) THEN speak.dataOffset
                  ELSE Len(wavData)
         audioData == SubSeq(wavData, start + 1, Len(wavData))
         processedAudio == ProcessedAudio(audioData, speak.gain, speak.bitsPerSample)
     IN speak' = IF processedAudio.thrown
                 THEN SpeakCatch(speak, OutOfRangeMessage)
                 ELSE [speak EXCEPT
                         !.pc = "playing",
                         !.speaker = <<[channels |-> speak.numChannels,
                                        bitDepth |-> speak.bitsPerSample,
                                        sampleRate |-> speak.sampleRate,
                                        signed |-> speak.bitsPerSample = 16]>>,
                         !.written = <<processedAudio.audio>>]
  /\ UNCHANGED <<env, headers, procedures, tool, calls>>

\* SpeakerClose with a result that every "close" replaces
SpeakerCloseOverwriting ==
  /\ speak.pc = "playing"
  /\ \A e \in 1..Len(speak.events) : speak.events[e] # "close"
  /\ speak' = [speak EXCEPT
                 !.events = Append(@, "close"),
                 !.result = <<[title |-> "Spoken",
                               output |-> <<"Assistant spoke: \"">>
                                          \o speak.text \o <<"\"">>,
                               metadata |-> <<<<"stop", TRUE>>>>]>>]
  /\ UNCHANGED <<env, headers, procedures, tool, calls>>

\* the speaker emits "close": the listener resolves the returned promise,
\* which keeps the value of its first resolution
SpeakerClose ==
  /\ speak.pc = "playing"
  /\ \A e \in 1..Len(speak.events) : speak.events[e] # "close"
  /\ speak' = [speak EXCEPT
                 !.events = Append(@, "close"),
                 !.result = IF @ # <<>> THEN @
                            ELSE <<[title |-> "Spoken",
                                    output |-> <<"Assistant spoke: \"">>
                                               \o speak.text \o <<"\"">>,
                                    metadata |-> <<<<"stop", TRUE>>>>]>>]
  /\ UNCHANGED <<env, headers, procedures, tool, calls>>

\* the speaker emits "error"
SpeakerError(messages) ==
  /\ speak.pc = "playing"
  /\ \A e \in 1..Len(speak.events) : speak.events[e] # "error"
  /\ \E message \in messages :
       speak' = [speak EXCEPT
                   !.events = Append(@, "error"),
                   !.result = IF @ # <<>> THEN @
                              ELSE <<[title |-> "Audio Error",
                                      output |-> <<"Audio playback error: ">>
                                                 \o message,
                                      metadata |-> <<>>]>>]
  /\ UNCHANGED <<env, headers, procedures, tool, calls>>

----------------------------------------------------------------------------
(* The speak tool: what the host, the TTS service and the speaker supply *)

U16(n) == <<n % 256, n \div 256>>

U32(n) == <<n % 256, (n \div 256) % 256, (n \div 65536) % 256, n \div 16777216>>

\* the bytes of 16-bit samples, two's complement, least significant first
Samples(values) ==
  Concat([k \in 1..Len(values) |->
            U16(IF values[k] < 0 THEN values[k] + 65536 ELSE values[k])])

\* "RIFF", the size of the file, "WAVE"
Riff == <<82, 73, 70, 70>> \o U32(0) \o <<87, 65, 86, 69>>

\* the "fmt " chunk of mono PCM at 16 kHz: the channels at offset 22, the
\* sample rate at 24 and the bits per sample at 34
Fmt(bits) ==
  <<102, 109, 116, 32>> \o U32(16) \o U16(1) \o U16(1) \o U32(16000)
  \o U32(16000 * (bits \div 8)) \o U16(bits \div 8) \o U16(bits)

\* a chunk: its id, its declared size and the bytes that follow
Chunk(id, size, bytes) == id \o U32(size) \o bytes

DataId == <<100, 97, 116, 97>>
ListId == <<76, 73, 83, 84>>

\* samples whose products round up, round down, and leave the 16-bit range
Payload == Samples(<<1000, -1000, 32767, -32768, 3, -3, 1, -1, 0, 5>>)

\* a standard file
Wav16 == Riff \o Fmt(16) \o Chunk(DataId, Len(Payload), Payload)
\* 8-bit samples
Wav8 == Riff \o Fmt(8) \o Chunk(DataId, 3, <<128, 0, 255>>)
\* a chunk between the format and the data
WavList ==
  Riff \o Fmt(16) \o Chunk(ListId, 4, <<73, 78, 70, 79>>)
  \o Chunk(DataId, 4, Samples(<<-7, 7>>))
\* two chunks that declare no content before the data
WavEmptyChunks ==
  Riff \o Fmt(16) \o Chunk(ListId, 0, <<>>) \o Chunk(ListId, 0, <<>>)
  \o Chunk(DataId, 2, Samples(<<-5>>))
\* a chunk that declares more than the buffer holds
WavTruncated == Riff \o Fmt(16) \o Chunk(ListId, 1000, <<1, 2, 3, 4, 5, 6>>)
\* no data chunk, and fewer than 8 bytes after the last chunk
WavNoData == Riff \o Fmt(16) \o <<0, 0, 0, 0, 0, 0>>
\* a data chunk of 16-bit samples that ends in the middle of a sample
WavOdd == Riff \o Fmt(16) \o Chunk(DataId, 3, <<1, 2, 3>>)
\* a chunk id whose first byte has its high bit set
WavHighBit == Riff \o Fmt(16) \o Chunk(<<228, 97, 116, 97>>, 2, Samples(<<9>>))
\* a chunk after the data
WavTrailing ==
  Riff \o Fmt(16) \o Chunk(DataId, 2, Samples(<<-9>>))
  \o Chunk(ListId, 2, <<1, 2>>)
\* a body that is no WAV file
WavShort == Riff \o <<1, 2, 3>>

WavInputs ==
  {Wav16, Wav8, WavList, WavEmptyChunks, WavTruncated, WavNoData, WavOdd,
   WavHighBit, WavTrailing, WavShort, <<>>}

\* args.gain: not given, 1.0, 0.5, 2.0, 1.5, 0 and -1.0
GainInputs ==
  {[given |-> FALSE, n |-> 1, d |-> 1], [given |-> TRUE, n |-> 1, d |-> 1],
   [given |-> TRUE, n |-> 1, d |-> 2], [given |-> TRUE, n |-> 2, d |-> 1],
   [given |-> TRUE, n |-> 3, d |-> 2], [given |-> TRUE, n |-> 0, d |-> 1],
   [given |-> TRUE, n |-> -1, d |-> 1]}

TextInputs == {<<"D", "o", "n", "e", ".">>}

\* args.voice and process.env.TTS_URL: not set, or set
VoiceInputs == {JUndefined, JStr(<<"a", "l", "b", "a">>)}
TtsUrlInputs == {JUndefined, JStr(<<"http://tts:5003">>)}

ResponseInputs ==
  {[ok |-> TRUE, status |-> OK200, statusText |-> <<"OK">>],
   [ok |-> FALSE, status |-> ServerError500,
    statusText |-> <<"Internal Server Error">>]}

\* what the awaited promises reject with, and what the speaker reports
RejectionInputs == {FetchFailedMessage, <<"Cannot find package 'speaker'">>}
SpeakerErrorInputs == {<<"write() failed">>}

NextSpeak ==
  \/ SpeakExecute(TextInputs, VoiceInputs, GainInputs, TtsUrlInputs)
  \/ SpeakFetchResolve(ResponseInputs)
  \/ SpeakReject(RejectionInputs)
  \/ SpeakBufferResolve(WavInputs)
  \/ SpeakScan
  \/ SpeakPlay
  \/ SpeakerClose
  \/ SpeakerError(SpeakerErrorInputs)

\* the scan and what follows it are synchronous code: once entered they run
\* to the next await or return
SpecSpeak ==
  InitFactory /\ [][NextSpeak]_vars /\ WF_vars(SpeakScan) /\ WF_vars(SpeakPlay)


----------------------------------------------------------------------------
(* Vocabulary of the properties *)

RegistryKeys == DeclaredKeys(trpcEndpoints, restEndpoints)

FactoryKeys == DeclaredKeys(FactoryTrpcEndpoints, FactoryRestEndpoints)

\* an invocation that has been made and not yet handed back
Invoked(i) == calls[i].pc # "idle"

\* an invocation that has returned its string
Done(i) == calls[i].pc = "done"

\* the string is a JSON object with error = true and a message string
IsErrorObject(string) ==
  LET parsed == JSONparse(string)
  IN /\ parsed.ok
     /\ parsed.v.t = "obj"
     /\ Member(parsed.v, errorName) = JBool(TRUE)
     /\ Member(parsed.v, messageName).t = "str"

\* the message of an error object
MessageOf(string) == Member(JSONparse(string).v, messageName).v

\* the params string is there and is not valid JSON
PresentNotJson(params) == params.given /\ ~JSONparse(params.text).ok

\* the params string is there, is not empty and is not valid JSON
NonEmptyNotJson(params) == ParamsTruthy(params) /\ ~JSONparse(params.text).ok

----------------------------------------------------------------------------
(* C1 *)

\* C1: for every procedure key that the registry does not declare, also a
\* name that exists only as an inherited object property, execute returns a
\* JSON error object with error = true whose message names the key.
C1_UndeclaredKeyIsNamed ==
  \A i \in Calls :
    (Done(i) /\ calls[i].procedure \notin RegistryKeys)
      => /\ IsErrorObject(calls[i].result)
         /\ Contains(MessageOf(calls[i].result), calls[i].procedure)

----------------------------------------------------------------------------
(* C2 *)

\* the keys of the descriptors flagged raw: true, of either table
RawFlaggedKeys(trpc, rest) ==
  UNION {{trpc[g].group \o <<".">> \o trpc[g].endpoints[e].name :
            e \in {x \in 1..Len(trpc[g].endpoints) : trpc[g].endpoints[x].raw}} :
           g \in 1..Len(trpc)}
  \cup
  UNION {{rest[g].endpoints[e].name :
            e \in {x \in 1..Len(rest[g].endpoints) : rest[g].endpoints[x].raw}} :
           g \in 1..Len(rest)}

FactoryRawKeys == RawFlaggedKeys(FactoryTrpcEndpoints, FactoryRestEndpoints)

\* the request failed at the network level, or the body could not be read
TransportFailure(i) == calls[i].response.state \in {"rejected", "aborted"}

\* the body arrived, was to be decoded, and is not valid JSON
RemoteParseFailure(i) ==
  /\ calls[i].response.state = "completed"
  /\ ~calls[i].shouldReturnRaw
  /\ ~JSONparse(calls[i].response.text).ok

\* C2 as stated: execute never raises past its own boundary: whatever the
\* key, the params string and the remote outcome, it returns a string, and
\* for an unknown procedure, malformed parameters, a transport failure or a
\* remote parse failure that string is a JSON object with error = true and a
\* message.
C2_EveryFailureIsAnErrorObject ==
  \A i \in Calls :
    /\ calls[i].pc \in {"idle", "fetch", "text", "done"}
    /\ Done(i) =>
         /\ calls[i].result \in Seq(STRING)
         /\ (\/ calls[i].procedure \notin FactoryKeys
             \/ PresentNotJson(calls[i].params)
             \/ TransportFailure(i)
             \/ RemoteParseFailure(i))
              => IsErrorObject(calls[i].result)

\* C2 amended: as stated, where malformed parameters are a params string
\* that is not empty and is not valid JSON.
C2_EveryReportedFailureIsAnErrorObject ==
  \A i \in Calls :
    /\ calls[i].pc \in {"idle", "fetch", "text", "done"}
    /\ Done(i) =>
         /\ calls[i].result \in Seq(STRING)
         /\ (\/ calls[i].procedure \notin FactoryKeys
             \/ NonEmptyNotJson(calls[i].params)
             \/ TransportFailure(i)
             \/ RemoteParseFailure(i))
              => IsErrorObject(calls[i].result)

\* a declared key whose request failed at the network level
C2_Witness ==
  \E i \in Calls :
    /\ Done(i)
    /\ calls[i].procedure \in FactoryKeys
    /\ calls[i].response.state = "rejected"
    /\ IsErrorObject(calls[i].result)

----------------------------------------------------------------------------
(* C3 *)

\* C3: for every key of the registry, "<namespace>.<name>" of trpcEndpoints
\* and "<METHOD> <path>" of restEndpoints, the dispatcher resolves a
\* procedure: no invocation with a declared key returns the not-found error.
C3_DeclaredKeysResolve ==
  \A i \in Calls :
    (Invoked(i) /\ calls[i].procedure \in RegistryKeys)
      => /\ Lookup(procedures, calls[i].procedure).found = "own"
         /\ Done(i) => calls[i].result # ErrorString(NotFound(calls[i].procedure))

\* an invocation of a REST key whose call went out and came back
C3_Witness ==
  \E i \in Calls :
    /\ Done(i)
    /\ calls[i].procedure \in DeclaredRestKeys(restEndpoints)
    /\ calls[i].completion.kind = "returned"
    /\ calls[i].proc.type = "rest"

----------------------------------------------------------------------------
(* C4 *)

\* C4 as stated: for a declared key, a params string that is present and is
\* not valid JSON yields a JSON error object describing the parse failure,
\* and an absent params argument is treated as the empty parameter object.
C4_PresentInvalidParamsFail ==
  \A i \in Calls :
    (Invoked(i) /\ calls[i].procedure \in RegistryKeys)
      => /\ PresentNotJson(calls[i].params)
              => /\ Done(i)
                 /\ calls[i].requests = <<>>
                 /\ IsErrorObject(calls[i].result)
                 /\ MessageOf(calls[i].result) = SyntaxErrorMessage
         /\ ~calls[i].params.given
              => calls[i].requests = <<ProcFetch(calls[i].proc, JObj(<<>>))>>

\* C4 amended: for a declared key, a params string that is not empty and is
\* not valid JSON yields a JSON error object describing the parse failure,
\* and an absent or empty params argument is treated as the empty parameter
\* object.
C4_NonEmptyInvalidParamsFail ==
  \A i \in Calls :
    (Invoked(i) /\ calls[i].procedure \in RegistryKeys)
      => /\ NonEmptyNotJson(calls[i].params)
              => /\ Done(i)
                 /\ calls[i].requests = <<>>
                 /\ IsErrorObject(calls[i].result)
                 /\ MessageOf(calls[i].result) = SyntaxErrorMessage
         /\ ~ParamsTruthy(calls[i].params)
              => calls[i].requests = <<ProcFetch(calls[i].proc, JObj(<<>>))>>

\* a declared key invoked with "{not json"
C4_Witness ==
  \E i \in Calls :
    /\ Done(i)
    /\ calls[i].procedure \in RegistryKeys
    /\ calls[i].params = Given(NotJsonParams)
    /\ IsErrorObject(calls[i].result)

----------------------------------------------------------------------------
(* C5 *)

\* the path of a request URL: what follows the base URL, up to the query
PathOfUrl(url) ==
  LET rest == Drop(url, Len(baseUrl) + 1)
      q == IndexOf(rest, <<"?">>)
  IN IF q = 0 THEN rest ELSE SubSeq(rest, 1, q - 1)

\* the query of a request URL: what follows the question mark
QueryOfUrl(url) ==
  LET q == IndexOf(url, <<"?">>)
  IN IF q = 0 THEN <<>> ELSE Drop(url, q + 1)

\* whether the request carries key k: in its query (GET) or its body
Carries(request, k) ==
  IF request.method = GET
  THEN Contains(<<"&">> \o QueryOfUrl(request.url), <<"&">> \o FormEncode(k) \o <<"=">>)
  ELSE /\ request.body.given
       /\ JSONparse(request.body.text).ok
       /\ Member(JSONparse(request.body.text).v, k) # JUndefined

\* the members of the params object the caller supplied
Supplied(i) ==
  IF ParamsTruthy(calls[i].params) /\ JSONparse(calls[i].params.text).ok
     /\ JSONparse(calls[i].params.text).v.t = "obj"
  THEN JSONparse(calls[i].params.text).v.v
  ELSE <<>>

\* template with its one occurrence of placeholder replaced by value
Substituted(template, placeholder, value) ==
  LET at == IndexOf(template, placeholder)
  IN SubSeq(template, 1, at - 1) \o value \o Drop(template, at + Len(placeholder))

\* a placeholder name the path regex recognises
WordName(k) == k # <<>> /\ \A n \in 1..Len(k) : k[n] \in WordChars

\* a value whose text has no character special to the substitution or to
\* the parts of a URL
PlainValue(value) ==
  /\ value.t \in {"str", "num", "bool"}
  /\ \A c \in {"$", "[", "?", "#"} : ~Contains(ToStr(value), <<c>>)

\* a template whose only bracket is the one that opens its one placeholder
SinglePlaceholder(template) ==
  Len(SelectSeq(template, LAMBDA c : c = "[")) = 1

----------------------------------------------------------------------------
(* C6 *)

\* C6: for every descriptor flagged raw: true, of either kind, execute
\* returns the raw wrapper with the body text and the HTTP status for every
\* completed response, whether or not the body is valid JSON.
C6_RawFlaggedReturnsWrapper ==
  \A i \in Calls :
    (/\ Done(i)
     /\ calls[i].response.state = "completed"
     /\ calls[i].procedure \in FactoryRawKeys)
      => calls[i].completion
           = Returned(RawResult(calls[i].response.text, calls[i].response.status))

----------------------------------------------------------------------------
(* C7 *)

\* the caller asked for the raw text: a truthy returnRaw member of the params
RequestedRaw(i) ==
  /\ ParamsTruthy(calls[i].params)
  /\ JSONparse(calls[i].params.text).ok
  /\ Truthy(Member(JSONparse(calls[i].params.text).v, returnRawName))

\* the words of the message that precede the excerpt of the body
ExcerptMarker == <<", Response body (first 500 chars): ">>

\* the part of a parse failure message that follows the marker
ExcerptOf(message) == Drop(message, IndexOf(message, ExcerptMarker) + 1)

\* execute failed, and the error's message has the HTTP status and ends with
\* an excerpt of the body: a prefix of it of at most 500 characters
ParseFailureReported(i) ==
  /\ calls[i].completion.kind = "thrown"
  /\ Contains(calls[i].completion.error.message, calls[i].response.status)
  /\ Contains(calls[i].completion.error.message, ExcerptMarker)
  /\ Len(ExcerptOf(calls[i].completion.error.message)) <= 500
  /\ ExcerptOf(calls[i].completion.error.message)
       = SubSeq(calls[i].response.text, 1,
                Len(ExcerptOf(calls[i].completion.error.message)))
  /\ IsErrorObject(calls[i].result)
  /\ MessageOf(calls[i].result) = calls[i].completion.error.message

\* C7 as stated: for every non-raw procedure whose completed response body is
\* not valid JSON, execute fails with an error whose message contains the
\* HTTP status and an excerpt of the body of at most 500 characters, a
\* prefix of the body, for GET and mutating calls and both procedure kinds.
C7_NonJsonBodyFails ==
  \A i \in Calls :
    (/\ Done(i)
     /\ calls[i].response.state = "completed"
     /\ calls[i].procedure \in FactoryKeys \ FactoryRawKeys
     /\ ~JSONparse(calls[i].response.text).ok)
      => ParseFailureReported(i)

\* C7 amended: as stated, for the calls whose params do not ask for the raw
\* text with a truthy returnRaw member.
C7_NonJsonBodyFailsUnlessRawRequested ==
  \A i \in Calls :
    (/\ Done(i)
     /\ calls[i].response.state = "completed"
     /\ calls[i].procedure \in FactoryKeys \ FactoryRawKeys
     /\ ~RequestedRaw(i)
     /\ ~JSONparse(calls[i].response.text).ok)
      => ParseFailureReported(i)

\* a tRPC procedure whose response body is 501 characters that are not JSON
C7_Witness ==
  \E i \in Calls :
    /\ Done(i)
    /\ calls[i].proc.type = "trpc"
    /\ calls[i].procedure \notin FactoryRawKeys
    /\ calls[i].response.text = LongBody
    /\ ParseFailureReported(i)
    /\ Len(ExcerptOf(calls[i].completion.error.message)) = 500

----------------------------------------------------------------------------
(* C8 *)

\* C8: round trip: for any descriptor whose remote call completes with a body
\* that is valid JSON and is decoded, the rendered output parsed back as JSON
\* equals the decoded body, for every JSON value, also objects with a truthy
\* _raw member and the values null, false, 0 and "".
C8_RenderedOutputRoundTrips ==
  \A i \in Calls :
    (/\ Done(i)
     /\ calls[i].response.state = "completed"
     /\ calls[i].procedure \in FactoryKeys
     /\ ~calls[i].shouldReturnRaw
     /\ JSONparse(calls[i].response.text).ok)
      => /\ JSONparse(calls[i].result).ok
         /\ JSONparse(calls[i].result).v = JSONparse(calls[i].response.text).v

----------------------------------------------------------------------------
(* C9 *)

\* C9: each invocation issues at most one outbound request and returns only
\* after that request's response body has been read in full or the request
\* has failed; after a transport failure or a remote parse failure no
\* further request is issued.
C9_AtMostOneRequestNoRetry ==
  \A i \in Calls :
    /\ Len(calls[i].requests) <= 1
    /\ (Done(i) /\ calls[i].requests # <<>>)
         => calls[i].response.state \in {"completed", "rejected", "aborted"}
    /\ (TransportFailure(i) \/ RemoteParseFailure(i))
         => Done(i) /\ Len(calls[i].requests) = 1

\* an invocation that has returned after its one request failed
C9_Witness ==
  \E i \in Calls :
    /\ Done(i)
    /\ TransportFailure(i)
    /\ Len(calls[i].requests) = 1

----------------------------------------------------------------------------
(* C10 *)

\* C10: every outbound request, of every procedure kind and HTTP method,
\* carries Authorization: Bearer <token>, the token being the credential the
\* environment supplies, and a JSON Content-Type header.
C10_RequestsCarryHeaders ==
  \A i \in Calls :
    \A n \in 1..Len(calls[i].requests) :
      LET sent == calls[i].requests[n].headers
      IN /\ HasOwn(sent, ContentTypeName)
         /\ GetOwn(sent, ContentTypeName) = ApplicationJson
         /\ env.KILO_API_KEY.t = "str"
              => /\ HasOwn(sent, AuthorizationName)
                 /\ GetOwn(sent, AuthorizationName)
                      = <<"B", "e", "a", "r", "e", "r", " ">> \o env.KILO_API_KEY.v

\* a DELETE request of a REST procedure, sent with a token in the environment
C10_Witness ==
  \E i \in Calls :
    /\ Len(calls[i].requests) = 1
    /\ env.KILO_API_KEY.t = "str"
    /\ calls[i].proc.type = "rest"
    /\ calls[i].requests[1].method = DELETE
    /\ GetOwn(calls[i].requests[1].headers, AuthorizationName)
         = <<"B", "e", "a", "r", "e", "r", " ", "s", "k", "-", "1">>


----------------------------------------------------------------------------
(* C11 *)

\* the text "Status: <code>", a blank line, then the content
StatusText(status, content) ==
  <<"S", "t", "a", "t", "u", "s", ":", " ">> \o status \o <<"\n", "\n">> \o content

\* execute handed back a value: the wrapper it builds from the body text
\* when it takes the raw branch, the decoded body otherwise
Succeeded(i) ==
  /\ Done(i)
  /\ calls[i].response.state = "completed"
  /\ calls[i].completion.kind = "returned"

\* C11: the dispatcher renders its result as "Status: <code>", a blank line,
\* then the content exactly when the execution result of the procedure is a
\* raw-text wrapper, and as the pretty-printed JSON text of the parsed value
\* in every other successful case.
C11_StatusTextOnlyForWrapper ==
  \A i \in Calls :
    Succeeded(i)
      => IF calls[i].shouldReturnRaw
         THEN calls[i].result
                = StatusText(calls[i].response.status, calls[i].response.text)
         ELSE calls[i].result
                = JSONstringifyPretty(JSONparse(calls[i].response.text).v)


----------------------------------------------------------------------------
(* C12 *)

\* whether k names a placeholder of the REST path template
IsPathParam(template, k) ==
  WordName(k) /\ Contains(template, <<"[">> \o k \o <<"]">>)

\* the members the caller supplied that are left for the request: all but
\* returnRaw and, for a REST procedure, but the path parameters
Remaining(i) ==
  SelectSeq(Supplied(i),
            LAMBDA p : /\ p.k # returnRawName
                       /\ ~(/\ calls[i].proc.type = "rest"
                            /\ IsPathParam(calls[i].procedure, p.k)))

\* the number of entries of a query
QueryEntries(query) ==
  IF query = <<>> THEN 0 ELSE 1 + Len(SelectSeq(query, LAMBDA c : c = "&"))

\* C12: for every procedure, a GET call carries its remaining parameters only
\* in the URL query (REST: one query entry per remaining key; tRPC: the whole
\* parameter object, JSON-encoded, as the single input value) and sends no
\* body, while a POST, PUT or DELETE call carries its remaining parameters
\* only in a JSON request body and adds no query string.
C12_ParamsInQueryOrBody ==
  \A i \in Calls :
    \A n \in 1..Len(calls[i].requests) :
      LET request == calls[i].requests[n]
          query == QueryOfUrl(request.url)
      IN IF request.method = GET
         THEN /\ ~request.body.given
              /\ IF calls[i].proc.type = "trpc"
                 THEN query = <<"i", "n", "p", "u", "t", "=">>
                                \o encodeURIComponent(JSONstringify(JObj(Remaining(i))))
                 ELSE /\ QueryEntries(query) = Len(Remaining(i))
                      /\ \A m \in 1..Len(Remaining(i)) :
                           Carries(request, Remaining(i)[m].k)
         ELSE /\ ~Contains(request.url, <<"?">>)
              /\ request.body.given
              /\ JSONparse(request.body.text).ok
              /\ JSONparse(request.body.text).v = JObj(Remaining(i))

\* a POST request of a REST procedure with a path parameter and one
\* remaining parameter, which travels in the body
C12_Witness ==
  \E i \in Calls :
    /\ Len(calls[i].requests) = 1
    /\ calls[i].proc.type = "rest"
    /\ calls[i].requests[1].method = POST
    /\ Len(Supplied(i)) = 2
    /\ Len(Remaining(i)) = 1
    /\ JSONparse(calls[i].requests[1].body.text).v = JObj(Remaining(i))


----------------------------------------------------------------------------
(* C13 *)

----------------------------------------------------------------------------
(* C14 *)

\* a REST key without its method prefix and without the leading /api
StrippedPath(key) ==
  LET path == Drop(key, IndexOf(key, <<" ">>) + 1)
  IN IF StartsWith(path, <<"/", "a", "p", "i">>) THEN Drop(path, 5) ELSE path

\* the message of the failure that execute met
CauseMessage(i) ==
  CASE calls[i].response.state = "rejected" -> FetchFailedMessage
    [] calls[i].response.state = "aborted" -> BodyReadFailedMessage
    [] OTHER -> SyntaxErrorMessage

\* execute failed inside a declared procedure and the invocation is over
FailedInside(i) ==
  /\ Done(i)
  /\ calls[i].procedure \in FactoryKeys
  /\ TransportFailure(i) \/ RemoteParseFailure(i)

\* the failure left execute as one error, which the dispatcher reports, and
\* whose message has the quoted identity and the message of the cause
NormalizedError(i, identity) ==
  /\ calls[i].completion.kind = "thrown"
  /\ IsErrorObject(calls[i].result)
  /\ MessageOf(calls[i].result) = calls[i].completion.error.message
  /\ Contains(calls[i].completion.error.message, <<"\"">> \o identity \o <<"\"">>)
  /\ Contains(calls[i].completion.error.message, CauseMessage(i))

\* C14 as stated: every failure inside execute (network-level failure or
\* response parse failure) leaves the procedure as exactly one normalized
\* error whose message carries the key under which the procedure is
\* registered and the message of the underlying cause.
C14_ErrorNamesKey ==
  \A i \in Calls : FailedInside(i) => NormalizedError(i, calls[i].procedure)

\* C14 amended: every failure inside execute leaves the procedure as exactly
\* one normalized error whose message carries the message of the underlying
\* cause and names the procedure: a remote-procedure entry by its key, a REST
\* entry by its path without the method prefix and the leading /api.
C14_ErrorNamesKeyOrPath ==
  \A i \in Calls :
    FailedInside(i)
      => NormalizedError(i, IF calls[i].proc.type = "trpc"
                            THEN calls[i].procedure
                            ELSE StrippedPath(calls[i].procedure))

\* the body of a REST response could not be read, and the error names the
\* path, not the key
C14_Witness ==
  \E i \in Calls :
    /\ FailedInside(i)
    /\ calls[i].proc.type = "rest"
    /\ calls[i].response.state = "aborted"
    /\ Contains(calls[i].completion.error.message, StrippedPath(calls[i].procedure))
    /\ ~Contains(calls[i].completion.error.message, calls[i].procedure)


----------------------------------------------------------------------------
(* C15 *)

\* the descriptors of a table, in order, each with the key it is to get
Descriptors(table, kind) ==
  Concat([g \in 1..Len(table) |->
            [e \in 1..Len(table[g].endpoints) |->
               [key |-> IF kind = "trpc"
                        THEN table[g].group \o <<".">> \o table[g].endpoints[e].name
                        ELSE table[g].endpoints[e].name,
                kind |-> kind,
                method |-> table[g].endpoints[e].method,
                description |-> table[g].endpoints[e].description]]])

AllDescriptors == Descriptors(trpcEndpoints, "trpc") \o Descriptors(restEndpoints, "rest")

\* C15: after initialization every key of the procedure map corresponds to
\* exactly one endpoint descriptor and every descriptor has its own key: no
\* two descriptors, of one table or of both, produce the same key, so the
\* number of procedures equals the number of descriptors and no registration
\* overwrites another.
C15_OneKeyPerDescriptor ==
  /\ Len(procedures) = Len(AllDescriptors)
  /\ Cardinality({AllDescriptors[d].key : d \in 1..Len(AllDescriptors)})
       = Len(AllDescriptors)
  /\ \A d \in 1..Len(AllDescriptors) :
       /\ procedures[d].k = AllDescriptors[d].key
       /\ procedures[d].v.type = AllDescriptors[d].kind
       /\ procedures[d].v.method = AllDescriptors[d].method
       /\ StartsWith(procedures[d].v.description, AllDescriptors[d].description)

\* the map holds REST procedures and two remote procedures of one name in
\* two namespaces, each under its own key
C15_Witness ==
  /\ \E c \in 1..Len(procedures) : procedures[c].v.type = "rest"
  /\ \E a, b \in 1..Len(procedures) :
       /\ a # b
       /\ procedures[a].v.type = "trpc"
       /\ procedures[b].v.type = "trpc"
       /\ procedures[a].v.name = procedures[b].v.name
       /\ procedures[a].v.namespace # procedures[b].v.namespace


----------------------------------------------------------------------------
(* C16 *)

\* C16: the procedure map is never mutated after module initialization:
\* whatever the keys, the params and the remote outcomes of the invocations,
\* each step leaves the keys and every procedure's kind, method, path,
\* description and raw flag as they were.
C16_ProceduresNeverMutated == [][procedures' = procedures]_vars

\* an invocation of a declared key has failed on the body of its response,
\* and the map is the one the registration loops built
C16_Witness ==
  \E i \in Calls :
    /\ Done(i)
    /\ calls[i].procedure \in RegistryKeys
    /\ RemoteParseFailure(i)
    /\ calls[i].completion.kind = "thrown"
    /\ procedures = BuildProcedures(trpcEndpoints, restEndpoints)


----------------------------------------------------------------------------
(* C17 *)

\* the lines of a text
Lines(text) ==
  LET breaks == SelectSeq([n \in 1..Len(text) |-> n], LAMBDA n : text[n] = "\n")
      from(m) == IF m = 1 THEN 1 ELSE breaks[m - 1] + 1
      to(m) == IF m = Len(breaks) + 1 THEN Len(text) ELSE breaks[m] - 1
  IN [m \in 1..(Len(breaks) + 1) |-> SubSeq(text, from(m), to(m))]

TrpcHeading == <<"## Available tRPC procedures (use these first):">>
RestHeading ==
  <<"## Available REST endpoints (include /api/profile/* in profile info queries):">>

\* the positions of the lines that list key
ListingsOf(lines, key) ==
  {m \in 1..Len(lines) : StartsWith(lines[m], <<"-", " ">> \o key \o <<":", " ">>)}

\* the position of a heading among the lines
HeadingAt(lines, heading) == CHOOSE m \in 1..Len(lines) : lines[m] = heading

\* the lines list a procedure once, with its description and parameter
\* documentation, in the section of its kind
ListedOnceInSection(lines, trpcAt, restAt, p) ==
  /\ Cardinality(ListingsOf(lines, p.k)) = 1
  /\ \A m \in ListingsOf(lines, p.k) :
       /\ lines[m] = <<"-", " ">> \o p.k \o <<":", " ">> \o p.v.description
       /\ IF p.v.type = "trpc" THEN trpcAt < m /\ m < restAt ELSE restAt < m

\* C17: the generated self-description enumerates every known procedure key
\* exactly once together with its description and parameter documentation,
\* tRPC keys in the tRPC section and REST keys in the REST section, and a key
\* is listed in the description if and only if the dispatcher resolves it,
\* that is, does not answer an invocation of it with the not-found error.
C17_ListedIffResolved ==
  LET lines == Lines(tool.description)
      trpcAt == HeadingAt(lines, TrpcHeading)
      restAt == HeadingAt(lines, RestHeading)
  IN /\ \A i \in Calls :
          Done(i) => (ListingsOf(lines, calls[i].procedure) # {}
                        <=> calls[i].result # ErrorString(NotFound(calls[i].procedure)))
     /\ \A n \in 1..Len(procedures) :
          ListedOnceInSection(lines, trpcAt, restAt, procedures[n])


----------------------------------------------------------------------------
(* C18 *)

\* C18: all procedures return JSON responses: for every declared procedure
\* and every remote outcome, the string the dispatcher returns is valid JSON
\* text.
C18_ReturnedStringIsJson ==
  \A i \in Calls :
    (Done(i) /\ calls[i].procedure \in RegistryKeys)
      => JSONparse(calls[i].result).ok


----------------------------------------------------------------------------
(* C19 *)

\* the procedure keys of the example usage in the header comment
ExampleUsageKeys ==
  {<<"w", "e", "b", "h", "o", "o", "k", "T", "r", "i", "g", "g", "e", "r", "s", ".",
     "l", "i", "s", "t">>,
   <<"w", "e", "b", "h", "o", "o", "k", "T", "r", "i", "g", "g", "e", "r", "s", ".",
     "g", "e", "t">>,
   <<"w", "e", "b", "h", "o", "o", "k", "T", "r", "i", "g", "g", "e", "r", "s", ".",
     "c", "r", "e", "a", "t", "e">>,
   <<"G", "E", "T", " ", "/", "a", "p", "i", "/", "p", "r", "o", "f", "i", "l", "e">>,
   <<"G", "E", "T", " ", "/", "a", "p", "i", "/", "p", "r", "o", "f", "i", "l", "e",
     "/", "u", "s", "a", "g", "e">>,
   <<"G", "E", "T", " ", "/", "a", "p", "i", "/", "o", "r", "g", "a", "n", "i", "z",
     "a", "t", "i", "o", "n", "s", "/", "[", "i", "d", "]">>,
   <<"G", "E", "T", " ", "/", "a", "p", "i", "/", "m", "a", "r", "k", "e", "t", "p",
     "l", "a", "c", "e", "/", "s", "k", "i", "l", "l", "s">>,
   <<"G", "E", "T", " ", "/", "a", "p", "i", "/", "m", "a", "r", "k", "e", "t", "p",
     "l", "a", "c", "e", "/", "m", "o", "d", "e", "s">>}

\* C19: every procedure key used in the documented usage examples of the
\* tool resolves to a registered procedure, so none of the documented calls
\* returns the not-found error.
C19_ExampleKeysResolve ==
  \A i \in Calls :
    (Done(i) /\ calls[i].procedure \in ExampleUsageKeys)
      => /\ HasOwn(procedures, calls[i].procedure)
         /\ calls[i].result # ErrorString(NotFound(calls[i].procedure))


----------------------------------------------------------------------------
(* C20 *)

\* a URL up to its query
WithoutQuery(url) ==
  IF Contains(url, <<"?">>) THEN SubSeq(url, 1, IndexOf(url, <<"?">>) - 1) ELSE url

RECURSIVE Filled(_, _)
\* a path template with the placeholders the entries name replaced by their
\* values
Filled(template, entries) ==
  IF entries = <<>> THEN template
  ELSE Filled(IF IsPathParam(template, Head(entries).k) /\ PlainValue(Head(entries).v)
              THEN Substituted(template, <<"[">> \o Head(entries).k \o <<"]">>,
                               ToStr(Head(entries).v))
              ELSE template,
              Tail(entries))

\* the number of places of a text where pat occurs
Occurrences(text, pat) == Cardinality({n \in 1..Len(text) : MatchesAt(text, pat, n)})

\* the request of invocation i addresses the base URL followed by path, and
\* /api occurs once in that URL
Addresses(i, request, path) ==
  /\ WithoutQuery(request.url) = baseUrl \o path
  /\ Occurrences(WithoutQuery(request.url), <<"/", "a", "p", "i">>) = 1

\* C20 as stated: for every procedure of either kind, the URL its request
\* addresses, the query string apart, is the fixed base URL followed by the
\* own path of the procedure: /<namespace>.<name> for a remote-procedure
\* entry, and for a REST entry the path of the key with the method prefix
\* and the leading /api removed, after placeholder substitution, so that
\* /api occurs once in the final URL.
C20_UrlIsBasePlusOwnPath ==
  \A i \in Calls :
    \A n \in 1..Len(calls[i].requests) :
      Addresses(i, calls[i].requests[n],
                IF calls[i].proc.type = "trpc"
                THEN <<"/">> \o calls[i].procedure
                ELSE Filled(StrippedPath(calls[i].procedure), Supplied(i)))

\* C20 amended: the URL addressed is the base URL followed by
\* /trpc/<namespace>.<name> for a remote-procedure entry, and by the path of
\* the key with the method prefix and the leading /api removed, after
\* placeholder substitution, for a REST entry; /api occurs once in it.
C20_UrlIsBasePlusTrpcOrPath ==
  \A i \in Calls :
    \A n \in 1..Len(calls[i].requests) :
      Addresses(i, calls[i].requests[n],
                IF calls[i].proc.type = "trpc"
                THEN <<"/", "t", "r", "p", "c", "/">> \o calls[i].procedure
                ELSE Filled(StrippedPath(calls[i].procedure), Supplied(i)))

\* a request of the REST entry with a placeholder, its value filled in and
\* the other parameter in the query
C20_Witness ==
  \E i \in Calls :
    /\ Len(calls[i].requests) = 1
    /\ calls[i].proc.type = "rest"
    /\ Contains(calls[i].procedure, <<"[">>)
    /\ ~Contains(calls[i].requests[1].url, <<"[">>)
    /\ Contains(calls[i].requests[1].url, <<"?">>)
    /\ Filled(StrippedPath(calls[i].procedure), Supplied(i))
         # StrippedPath(calls[i].procedure)


----------------------------------------------------------------------------
(* C21 *)

\* the invocation that has the key, the params and the remote response of
\* call and runs alone: from its start to the point its response allows
Alone(call) ==
  LET start == ExecuteStart(call.procedure, call.params)
      answered == OnFetchResolved(start, call.response.status)
  IN IF start.pc = "done" THEN start
     ELSE CASE call.response.state = "rejected" -> OnFetchRejected(start)
            [] call.response.state = "aborted" -> OnTextRejected(answered)
            [] call.response.state = "completed" ->
                 OnTextResolved(answered, call.response.text)
            [] OTHER -> IF call.pc = "text" THEN answered ELSE start

\* C21: dispatcher invocations share no mutable state: however the steps of
\* two invocations interleave at their awaits, a step of one leaves the other
\* as it was, each request's URL, method and body are those its own key and
\* params give, and each invocation returns the string it would return if it
\* ran alone against the same remote response.
C21_InvocationsAreIndependent ==
  /\ [][\A i \in Calls :
          calls[i]' # calls[i] => \A j \in Calls \ {i} : calls[j]' = calls[j]]_vars
  /\ [](\A i \in Calls : Invoked(i) => calls[i] = Alone(calls[i]))

\* two invocations of different keys overlap: one has returned its string
\* while the other, started before that, still reads its response
C21_Witness ==
  /\ Done(1)
  /\ calls[1].completion.kind = "returned"
  /\ calls[2].pc = "text"
  /\ calls[2].procedure # calls[1].procedure
  /\ calls[2].requests[1].url # calls[1].requests[1].url


----------------------------------------------------------------------------
(* C22 *)

\* the entry whose placeholder stands in the template at position n, if any
EntriesAt(template, entries, n) ==
  {x \in 1..Len(entries) :
     WordName(entries[x].k)
       /\ MatchesAt(template, <<"[">> \o entries[x].k \o <<"]">>, n)}

\* the entries supply a value for each placeholder of the template, which
\* has one at least
SuppliesEach(template, entries) ==
  /\ Contains(template, <<"[">>)
  /\ \A n \in 1..Len(template) :
       template[n] = "[" => EntriesAt(template, entries, n) # {}

\* the template with each placeholder replaced by the string form of its own
\* value, all at once: what a value brings in is not looked at again
FilledAtOnce(template, entries) ==
  LET key(n) == entries[CHOOSE x \in EntriesAt(template, entries, n) : TRUE]
      inside(n) == \E m \in 1..(n - 1) :
                     /\ EntriesAt(template, entries, m) # {}
                     /\ n < m + Len(key(m).k) + 2
  IN Concat([n \in 1..Len(template) |->
               IF inside(n) THEN <<>>
               ELSE IF EntriesAt(template, entries, n) # {} THEN ToStr(key(n).v)
               ELSE <<template[n]>>])

\* C22: for every REST procedure whose path template has [name] placeholders
\* and every parameter object that supplies a value for each placeholder, the
\* request path is the template with each placeholder replaced by the string
\* form of its own value and nothing else changed (a value triggers no
\* further substitution, a key that is no placeholder does not alter the
\* path), and exactly the placeholder keys are removed from the query string
\* or body.
C22_EachPlaceholderGetsItsValue ==
  \A i \in Calls :
    (/\ Invoked(i)
     /\ calls[i].proc.type = "rest"
     /\ Len(calls[i].requests) = 1
     /\ SuppliesEach(StrippedPath(calls[i].procedure), Supplied(i)))
      => /\ Drop(WithoutQuery(calls[i].requests[1].url), Len(baseUrl) + 1)
              = FilledAtOnce(StrippedPath(calls[i].procedure), Supplied(i))
         /\ \A x \in 1..Len(Supplied(i)) :
              Supplied(i)[x].k # returnRawName
                => (Carries(calls[i].requests[1], Supplied(i)[x].k)
                      <=> ~IsPathParam(StrippedPath(calls[i].procedure),
                                       Supplied(i)[x].k))


----------------------------------------------------------------------------
(* C23 *)

\* C23: within one invocation the steps occur in the order lookup, parameter
\* parse, HTTP request: no request is issued unless the key is a declared one
\* and the params parsed, exactly one request is issued when both succeed,
\* and when the key is undeclared and the params are malformed as well, the
\* error reported is the not-found error.
C23_LookupThenParseThenRequest ==
  \A i \in Calls :
    Invoked(i)
      => /\ calls[i].requests # <<>>
              => /\ calls[i].procedure \in RegistryKeys
                 /\ ~NonEmptyNotJson(calls[i].params)
         /\ (calls[i].procedure \in RegistryKeys /\ ~NonEmptyNotJson(calls[i].params))
              => Len(calls[i].requests) = 1
         /\ (/\ Done(i)
             /\ calls[i].procedure \notin RegistryKeys
             /\ NonEmptyNotJson(calls[i].params))
              => calls[i].result = ErrorString(NotFound(calls[i].procedure))


----------------------------------------------------------------------------
(* C24 *)

\* C24: for a procedure that does not take the raw branch the HTTP status
\* does not affect the outcome: a completed response with any status, 4xx
\* and 5xx included, and a valid JSON body is returned as the parsed value
\* and rendered as a success, never as the error object; the status is
\* visible to the caller only in raw results and in parse failure messages.
C24_StatusDoesNotAffectOutcome ==
  \A i \in Calls :
    (/\ Done(i)
     /\ calls[i].procedure \in FactoryKeys
     /\ calls[i].response.state = "completed")
      => /\ (~calls[i].shouldReturnRaw /\ JSONparse(calls[i].response.text).ok)
              => /\ calls[i].completion
                      = Returned(JSONparse(calls[i].response.text).v)
                 /\ ~IsErrorObject(calls[i].result)
         /\ Contains(calls[i].result, calls[i].response.status)
              => calls[i].shouldReturnRaw \/ RemoteParseFailure(i)

\* a remote procedure answered 500 with a JSON body, which the invocation
\* returned as it returns a success
C24_Witness ==
  \E i \in Calls :
    /\ Done(i)
    /\ calls[i].proc.type = "trpc"
    /\ ~calls[i].shouldReturnRaw
    /\ calls[i].response.status = ServerError500
    /\ calls[i].response.text = OkBody
    /\ calls[i].result = JSONstringifyPretty(JSONparse(OkBody).v)


----------------------------------------------------------------------------
(* C25 *)

\* the request carries the member k with the value v: in the JSON of the
\* input value (remote-procedure GET), as a query entry of the string form
\* of v (REST GET), or as a member of the JSON body
CarriesUnchanged(kind, request, k, v) ==
  IF request.method = GET
  THEN IF kind = "trpc"
       THEN /\ StartsWith(QueryOfUrl(request.url), <<"i", "n", "p", "u", "t", "=">>)
            /\ Contains(QueryOfUrl(request.url),
                        encodeURIComponent(Quote(k) \o <<":">> \o JSONstringify(v)))
       ELSE Contains(<<"&">> \o QueryOfUrl(request.url) \o <<"&">>,
                     <<"&">> \o FormEncode(k) \o <<"=">> \o FormEncode(ToStr(v))
                       \o <<"&">>)
  ELSE /\ request.body.given
       /\ JSONparse(request.body.text).ok
       /\ Member(JSONparse(request.body.text).v, k) = v

\* C25: the caller-side control key returnRaw is never sent to the remote
\* service: for every procedure kind and method and every parameter object,
\* the outgoing input value, query string and request body have no returnRaw
\* entry, and every other top-level key of the parameter object that is not a
\* path placeholder is sent unchanged.
C25_ReturnRawIsNotSent ==
  \A i \in Calls :
    \A n \in 1..Len(calls[i].requests) :
      /\ ~Contains(calls[i].requests[n].url, returnRawName)
      /\ ~Contains(calls[i].requests[n].body.text, returnRawName)
      /\ \A x \in 1..Len(Supplied(i)) :
           (/\ Supplied(i)[x].k # returnRawName
            /\ ~(/\ calls[i].proc.type = "rest"
                 /\ IsPathParam(calls[i].procedure, Supplied(i)[x].k)))
             => CarriesUnchanged(calls[i].proc.type, calls[i].requests[n],
                                 Supplied(i)[x].k, Supplied(i)[x].v)

\* a remote procedure invoked by POST with { id: "42", returnRaw: true }: the
\* body has id and has no returnRaw
C25_Witness ==
  \E i \in Calls :
    /\ Len(calls[i].requests) = 1
    /\ calls[i].proc.type = "trpc"
    /\ calls[i].requests[1].method = POST
    /\ calls[i].params = Given(IdRawParams)
    /\ JSONparse(calls[i].requests[1].body.text).v
         = JObj(<<Prop(<<"i", "d">>, JStr(<<"4", "2">>))>>)


----------------------------------------------------------------------------
(* C26 *)

\* the word of a REST key that stands before the space
MethodPrefix(key) == SubSeq(key, 1, IndexOf(key, <<" ">>) - 1)

\* C26: for every REST descriptor of the registry the HTTP method named in
\* the prefix of the key, the word before the space in name, equals the
\* method field of the descriptor, so the method used for the request is
\* always the one named in the key the caller dispatched.
C26_RequestMethodIsKeyPrefix ==
  /\ \A g \in 1..Len(restEndpoints) :
       \A e \in 1..Len(restEndpoints[g].endpoints) :
         /\ MethodPrefix(restEndpoints[g].endpoints[e].name) \in HttpMethod
         /\ MethodPrefix(restEndpoints[g].endpoints[e].name)
              = restEndpoints[g].endpoints[e].method
  /\ \A i \in Calls :
       \A n \in 1..Len(calls[i].requests) :
         calls[i].proc.type = "rest"
           => calls[i].requests[n].method = MethodPrefix(calls[i].procedure)

\* a request of a REST key that names POST has gone out by POST
C26_Witness ==
  \E i \in Calls :
    /\ Len(calls[i].requests) = 1
    /\ calls[i].proc.type = "rest"
    /\ MethodPrefix(calls[i].procedure) = POST
    /\ calls[i].requests[1].method = POST


----------------------------------------------------------------------------
(* C27 *)

\* the offsets at which the scan has read a chunk id
Visited == {r.from : r \in {q \in speak.reads : q.what = "chunkId"}}

\* the chunk header at an offset of the buffer: its id as ASCII text and
\* the size it declares
IdAt(buf, offset) == [k \in 1..4 |-> buf[offset + k] % 128]

DeclaredSizeAt(buf, offset) ==
  buf[offset + 5] + 256 * buf[offset + 6] + 65536 * buf[offset + 7]
  + 16777216 * buf[offset + 8]

\* a step that is one iteration of the scan, and the step that enters it
ScanIteration == speak.pc = "scan" /\ speak'.reads # speak.reads

ScanEntered == speak.pc # "scan" /\ speak'.pc = "scan"

----------------------------------------------------------------------------
(* C28 *)

\* the returned value carries metadata.stop = true
StopFlag(result) ==
  \E p \in 1..Len(result.metadata) : result.metadata[p] = <<"stop", TRUE>>

\* C28: once playback has started, the returned promise stays pending until
\* the speaker emits an event and is settled by the first one: "close"
\* gives the title "Spoken" with metadata.stop = true, "error" gives the
\* title "Audio Error" with empty metadata.  The promise holds at most one
\* value and a settled value never changes, whatever event follows; and a
\* value with the title "TTS Error" or "Audio Error" never carries
\* metadata.stop.
C28_FirstEventSettles ==
  /\ [][speak.result # <<>> => speak'.result = speak.result]_vars
  /\ [](/\ Len(speak.result) <= 1
        /\ speak.pc = "playing" =>
             /\ speak.events = <<>> <=> speak.result = <<>>
             /\ speak.events # <<>> /\ speak.events[1] = "close" =>
                  /\ speak.result[1].title = "Spoken"
                  /\ speak.result[1].metadata = <<<<"stop", TRUE>>>>
             /\ speak.events # <<>> /\ speak.events[1] = "error" =>
                  /\ speak.result[1].title = "Audio Error"
                  /\ ~StopFlag(speak.result[1])
        /\ speak.pc = "done" =>
             /\ Len(speak.result) = 1
             /\ speak.result[1].title = "TTS Error"
        /\ \A r \in 1..Len(speak.result) :
             speak.result[r].title \in {"TTS Error", "Audio Error"} =>
               ~StopFlag(speak.result[r]))

\* the speaker reported an error and closed afterwards: the result is the
\* one of the error
C28_Witness ==
  /\ speak.pc = "playing"
  /\ speak.events = <<"error", "close">>
  /\ speak.result # <<>>
  /\ speak.result[1].title = "Audio Error"


----------------------------------------------------------------------------
(* C29 *)

\* the payload: the bytes of the buffer from the offset the scan ended at
AudioPayload ==
  SubSeq(speak.wavData,
         (IF speak.dataOffset < Len(speak.wavData) THEN speak.dataOffset
          ELSE Len(speak.wavData)) + 1,
         Len(speak.wavData))

\* the 16-bit sample at an even offset of a buffer
SampleAt(buf, i) ==
  LET u == buf[i + 1] + 256 * buf[i + 2]
  IN IF u >= 32768 THEN u - 65536 ELSE u

\* r is the integer nearest to sample * gain, the upper one of two that are
\* equally near (Math.round)
IsRounded(r, sample, gain) ==
  /\ 2 * sample * gain.n - gain.d < 2 * gain.d * r
  /\ 2 * gain.d * r <= 2 * sample * gain.n + gain.d

\* v is sample * gain, rounded and clamped to the 16-bit range
IsScaled(v, sample, gain) ==
  \E r \in {v} \cup (IF v = 32767 THEN 32767..(32768 * 2) ELSE {})
           \cup (IF v = -32768 THEN (-(32768 * 2))..(-32768) ELSE {}) :
    IsRounded(r, sample, gain)

\* the gain stage applies: a gain other than 1.0 and 16-bit samples
GainApplies == speak.gain.given /\ speak.gain.n # speak.gain.d /\ speak.bitsPerSample = 16

\* the step that ends the scan, goes through the gain stage and plays
GainStage == speak.pc = "scan" /\ speak'.pc # "scan"

\* played is the payload with every sample scaled
IsGained(played, payload, gain) ==
  /\ Len(played) = Len(payload)
  /\ \A i \in 0..(Len(payload) - 2) :
       i % 2 = 0 => IsScaled(SampleAt(played, i), SampleAt(payload, i), gain)

\* C29: for every payload, the gain stage plays a buffer: with a gain other
\* than 1.0 and 16-bit samples it has the length of the payload and every
\* sample of it is the payload's sample times the gain, rounded and clamped
\* to -32768..32767; otherwise it is the payload itself.
C29_GainScalesEveryPayload ==
  [][GainStage =>
       /\ Len(speak'.written) = 1
       /\ IF GainApplies
          THEN IsGained(speak'.written[1], AudioPayload, speak.gain)
          ELSE speak'.written[1] = AudioPayload]_vars

\* C29, for the payloads the gain stage gets through: a payload of whole
\* samples is played scaled, and a payload of any length is played as it is
\* when the gain stage does not apply.
C29_GainScalesWholeSamples ==
  [][GainStage /\ (GainApplies => Len(AudioPayload) % 2 = 0) =>
       /\ Len(speak'.written) = 1
       /\ IF GainApplies
          THEN IsGained(speak'.written[1], AudioPayload, speak.gain)
          ELSE speak'.written[1] = AudioPayload]_vars

\* a payload of 16-bit samples that ends in the middle of a sample met a
\* gain of 0.5: nothing was played and a "TTS Error" was returned
C29_Witness ==
  /\ speak.pc = "done"
  /\ speak.bitsPerSample = 16
  /\ speak.found
  /\ Len(AudioPayload) = 3
  /\ speak.gain = [given |-> TRUE, n |-> 1, d |-> 2]
  /\ speak.written = <<>>
  /\ speak.result[1].title = "TTS Error"

\* ten samples were played at one and a half times their level, the ones
\* beyond the range clamped
C29_WitnessScaled ==
  /\ speak.pc = "playing"
  /\ speak.gain = [given |-> TRUE, n |-> 3, d |-> 2]
  /\ Len(AudioPayload) = 20
  /\ speak.written # <<AudioPayload>>
  /\ SampleAt(speak.written[1], 4) = 32767
  /\ SampleAt(speak.written[1], 10) = -4

====
